-------------------------- MODULE MCBlockedQuestions --------------------------
(* One member of a team, or two.                                           *)
EXTENDS BlockedQuestions, TLC

CONSTANTS s1, s2

TwoMembers == <<s1, s2>>
OneMember == <<s1>>
=============================================================================
