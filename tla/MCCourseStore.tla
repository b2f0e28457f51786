----------------------------- MODULE MCCourseStore -----------------------------
(* Two reviews of one course and a package: what they hold.                  *)
EXTENDS CourseStore, TLC

MCShort == [language |-> "en", assets |-> {"picture"}, assessments |-> {},
            modules |-> <<[key |-> "m1", lessons |-> <<[key |-> "l1", requires |-> <<>>]>>]>>]

\* The second module comes first in the alphabet, and requires out of order.
MCLong == [language |-> "pl", assets |-> {}, assessments |-> {"quiz"},
           modules |-> <<[key |-> "m2", lessons |-> <<[key |-> "l3", requires |-> <<>>]>>],
                         [key |-> "m1", lessons |-> <<[key |-> "l2", requires |-> <<>>],
                                                      [key |-> "l1", requires |-> <<"l3", "l2">>]>>]>>]

MCHomeOf == [s \in {"review1", "review2"} |-> "go"]

MCNumberOf == [review1 |-> <<1, 9, 1>>, review2 |-> <<1, 10, 0>>, package |-> <<1, 0, 0>>]

MCHolds == [review1 |-> MCShort, review2 |-> MCLong, package |-> MCShort]

=============================================================================
