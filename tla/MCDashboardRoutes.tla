---------------------------- MODULE MCDashboardRoutes ----------------------------
(* Values for the constants of DashboardRoutes.                              *)
EXTENDS DashboardRoutes

\* Addresses that only the `*` route takes: under no prefix, under the prefix of a role
\* and under the one that every role has.
Mistyped == {D(<<"nowhere">>), D(<<"agent", "nowhere">>), Admin(<<"pixel-tester", "nowhere">>),
             D(<<"settings", "nowhere">>)}
=============================================================================
