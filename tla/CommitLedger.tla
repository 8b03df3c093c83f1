---------------------------- MODULE CommitLedger ----------------------------
(***************************************************************************)
(* What the frame ledger of DirectSession promises, whatever the network   *)
(* does: Player 1 extends one sequence of frames, and every other machine  *)
(* plays a prefix of that sequence.  A frame is never changed once it is   *)
(* in the ledger.                                                          *)
(***************************************************************************)
EXTENDS Naturals, Sequences

CONSTANTS Machines,  \* the machines of the guests
          Frame      \* what one frame of the ledger may hold

VARIABLES ledger,    \* the frames Player 1 has played
          position   \* position[m]: how many of them machine m has played

ledgerVars == <<ledger, position>>

LedgerInit == /\ ledger = << >>
              /\ position = [m \in Machines |-> 0]

Extend == /\ \E f \in Frame : ledger' = Append(ledger, f)
          /\ UNCHANGED position

\* A machine plays the next frame, or is brought further by a state of Player 1.
Advance(m) == /\ \E n \in position[m] + 1 .. Len(ledger) :
                   position' = [position EXCEPT ![m] = n]
              /\ UNCHANGED ledger

LedgerNext == Extend \/ \E m \in Machines : Advance(m)

LedgerSpec == LedgerInit /\ [][LedgerNext]_ledgerVars
=============================================================================
