------------------------------ MODULE AxfsPages ------------------------------
(***************************************************************************)
(* What readpage promises the page cache, with no lock, cache or stream in *)
(* it: a task hands in a locked page and gets it back, in one step, filled *)
(* with the bytes of the file that belong there.                           *)
(*                                                                         *)
(* Nothing is promised of a page whose cblock does not inflate (Corrupt).  *)
(***************************************************************************)
EXTENDS AxfsImage

CONSTANTS
  Threads,   \* the tasks that read pages
  Requests,  \* the pages they may ask for
  NoRequest  \* stands for "no page in hand"

VARIABLES
  status,    \* status[t]: "idle", "reading" or "uptodate"
  asked,     \* asked[t]: the page t reads
  data       \* data[t]: the bytes of the page, once it is up to date

avars == <<status, asked, data>>

-----------------------------------------------------------------------------
PInit ==
  /\ status = [t \in Threads |-> "idle"]
  /\ asked = [t \in Threads |-> NoRequest]
  /\ data = [t \in Threads |-> Blank]

(* A task asks for a page that no other task holds locked.                 *)
Ask(t, r) ==
  /\ status[t] = "idle"
  /\ \A u \in Threads : asked[u] # r
  /\ status' = [status EXCEPT ![t] = "reading"]
  /\ asked' = [asked EXCEPT ![t] = r]
  /\ UNCHANGED data

Fill(t) ==
  /\ status[t] = "reading"
  /\ Corrupt(asked[t]) \/ PageFilled(asked[t], data'[t])
  /\ data' = [data EXCEPT ![t] = data'[t]]
  /\ status' = [status EXCEPT ![t] = "uptodate"]
  /\ UNCHANGED asked

Drop(t) ==
  /\ status[t] = "uptodate"
  /\ status' = [status EXCEPT ![t] = "idle"]
  /\ asked' = [asked EXCEPT ![t] = NoRequest]
  /\ data' = [data EXCEPT ![t] = Blank]

PNext == \E t \in Threads : (\E r \in Requests : Ask(t, r)) \/ Fill(t) \/ Drop(t)

PSpec == PInit /\ [][PNext]_avars
=============================================================================
