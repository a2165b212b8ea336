------------------------------- MODULE MCHook -------------------------------
(* An instance of Hook for TLC: one descriptor, a fiber that reads from it  *)
(* with a timeout, a callback that other code registers for writing, the    *)
(* descriptor closed and used again, and two threads that poll.             *)
EXTENDS Hook, TLC

CONSTANTS a, h1, h2, reader

OneFd         == {a}
TwoThreads    == {h1, h2}
ReaderOnly    == {reader}
AllOnOne      == [f \in Waiters |-> a]
AllRead       == [f \in Waiters |-> "READ"]
WriteCallback == {<<a, "WRITE">>}
=============================================================================
