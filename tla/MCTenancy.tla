----------------------------- MODULE MCTenancy -----------------------------
(* Two people who administer one tenant, and a second one to provision.    *)
EXTENDS Tenancy, TLC

CONSTANTS t1, t2, ana, bo, k1

MCFirstMembers == [t \in Tenants |-> IF t = t1 THEN {ana, bo} ELSE {}]

\* Demotions and revocations of each other and of themselves, one of a membership
\* elsewhere; a promotion; a member added; keys issued, revoked and used, also
\* where they may not be; and what operators ask.
MCCommands ==
    {<<"change", ana, t1, t1, bo, "viewer">>, <<"change", bo, t1, t1, ana, "editor">>,
     <<"revoke", ana, t1, t1, ana, "viewer">>, <<"revoke", bo, t1, t1, ana, "viewer">>,
     <<"revoke", bo, t2, t2, bo, "viewer">>, <<"revoke", ana, t1, t2, bo, "viewer">>,
     <<"change", ana, t1, t1, bo, "admin">>, <<"create", bo, t2, t2, ana, "admin">>,
     <<"issue", ana, t1, t1, ana, "editor">>, <<"withdraw", bo, t1, t1, bo, "viewer">>,
     <<"record", bo, t1, t1, bo, "viewer">>, <<"record", k1, t1, t1, bo, "viewer">>,
     <<"record", k1, t2, t1, bo, "viewer">>, <<"change", k1, t1, t1, bo, "viewer">>,
     <<"provision", ana, t2, t2, bo, "admin">>, <<"deactivate-tenant", ana, t1, t1, bo, "admin">>,
     <<"deactivate-person", ana, t1, t1, bo, "admin">>}

Interchangeable == Permutations(Clients)

=============================================================================
