------------------------ MODULE MCEmailVerification ------------------------
(* Small instances of EmailVerification for TLC. *)
EXTENDS EmailVerification, TLC

Hour == <<"hour">>
OneAnHour == [hour |-> 1]
HourAndDay == <<"hour", "day">>
OneAnHourTwoADay == [hour |-> 1, day |-> 2]
Symmetric == Permutations(Resends) \cup Permutations(Verifiers)
=============================================================================
