----------------------- MODULE MCTerminalSessions -----------------------
(***************************************************************************)
(* Small instances of TerminalSessions for TLC.                            *)
(***************************************************************************)
EXTENDS TerminalSessions, TLC

\* Clients, session objects and names are interchangeable.
Symmetry ==
    Permutations(Clients) \cup Permutations(Incarnations) \cup Permutations(Names)
=============================================================================
