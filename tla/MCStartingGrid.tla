--------------------------- MODULE MCStartingGrid ---------------------------
(* StartingGrid with interchangeable guests. *)
EXTENDS StartingGrid, TLC

Symmetry == Permutations(Guests)

Quiet == [advisory |-> FALSE, pending |-> 1, invitations |-> 1, admissions |-> 0,
          requests |-> 0, generation |-> 3, locks |-> 0, joiners |-> 2,
          stops |-> 0]

(* Join requests with and without a friend's admission against one         *)
(* refusal, removal or departure, and the replacement of the invitation or *)
(* the lock; ...                                                           *)
Replacing == [Quiet EXCEPT !.invitations = 2, !.admissions = 1, !.stops = 1]
Locking == [Quiet EXCEPT !.admissions = 1, !.locks = 1, !.stops = 1]

(* ... two ready requests of each guest; ...                               *)
Requesting == [Quiet EXCEPT !.pending = 2, !.requests = 2, !.generation = 4]

(* ... one guest with two ready requests that leaves or is removed, and    *)
(* whose join request may arrive again after that; ...                     *)
Returning == [Quiet EXCEPT !.requests = 2, !.generation = 6, !.joiners = 1, !.stops = 1]

(* ... guests whose builds know OnlineSaveStatus.                          *)
Advising == [Quiet EXCEPT !.advisory = TRUE, !.pending = 2]

AllCases == {Replacing, Locking, Requesting, Returning, Advising}

(* One ready request of each guest, and one departure. *)
Leaving == [Requesting EXCEPT !.requests = 1, !.generation = 3, !.stops = 1]

LeavingCase == {Leaving}
=============================================================================
