------------------------------ MODULE ScChannel ------------------------------
(***************************************************************************)
(* The start code side of the decoder's channel (lib_decode/               *)
(* DecChannelMcu.c): a thread that searches start codes puts the search in *)
(* a list of events, and the thread N of the channel waits for the driver  *)
(* to end it and calls back, which sets the event ScDetectionComplete.     *)
(*                                                                         *)
(* The list is changed under its own lock, while N tests it under the lock *)
(* of the condition it sleeps on, so putting an event in the list and      *)
(* waking N up are two steps.  A test that meets a half linked event       *)
(* finds the list empty or not; the wake-up, or the lock of the list, is   *)
(* still to come, so the test is as good as one before or after.           *)
(***************************************************************************)
EXTENDS Sequences

VARIABLES
    scList,     \* AL_EventQueue: "search" or, of bEnded, "ended"
    scDone,     \* the event ScDetectionComplete
    scLost,     \* has the driver refused or failed a search
    pcN         \* thread N: label

scVars == <<scList, scDone, scLost, pcN>>

ScInit == scList = <<>> /\ scDone = FALSE /\ scLost = FALSE /\ pcN = "test"

\* AL_EventQueue_Push, under the lock of the list
PutEvent(e) ==
    /\ scList' = Append(scList, e)
    /\ UNCHANGED <<scDone, scLost, pcN>>


\* Its broadcast, under the lock of the condition
WakeN ==
    /\ pcN' = IF pcN = "asleep" THEN "test" ELSE pcN
    /\ UNCHANGED <<scList, scDone, scLost>>

\* DecChannelMcu_SearchSC when the driver refuses: nobody is told
SearchRefused ==
    /\ scLost' = TRUE
    /\ UNCHANGED <<scList, scDone, pcN>>
-----------------------------------------------------------------------------
(* Thread N: ScNotificationThread *)

NStep(from, to) == pcN = from /\ pcN' = to

\* AL_WaitEvent: the test and the wait release its lock together
TestList ==
    /\ NStep("test", IF scList = <<>> THEN "asleep" ELSE "fetch")
    /\ UNCHANGED <<scList, scDone, scLost>>

\* A condition may return without a broadcast
WakeUnasked ==
    /\ NStep("asleep", "test")
    /\ UNCHANGED <<scList, scDone, scLost>>

FetchEvent ==
    /\ NStep("fetch", IF Head(scList) = "ended" THEN "ended" ELSE "status")
    /\ scList' = Tail(scList)
    /\ UNCHANGED <<scDone, scLost>>

\* The driver ends the search: AL_Decoder_EndScd
EndStartCode ==
    /\ NStep("status", "test")
    /\ scDone' = TRUE
    /\ UNCHANGED <<scList, scLost>>

\* getScStatusMsg fails, and nobody is called back
StatusFails ==
    /\ NStep("status", "test")
    /\ scLost' = TRUE
    /\ UNCHANGED <<scList, scDone>>

NNext == TestList \/ FetchEvent \/ EndStartCode
=============================================================================
