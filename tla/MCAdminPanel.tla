---------------------------- MODULE MCAdminPanel -----------------------------
(* AdminPanel for TLC: a robot that served another NUC, three ways of typing
   options. *)
EXTENDS AdminPanel

Nothing == [o \in DOMAIN Defaults |-> Unset]
Dry     == [Nothing EXCEPT !.dry = TRUE]
Other   == [Nothing EXCEPT !.yes = TRUE, !.safety = "full", !.domain = "5", !.rmw = "cyclone",
                           !.ns = [name |-> "other", slash |-> FALSE]]

NoGlobals  == {Nothing}
DryGlobals == {Nothing, Dry}
MCTypings  == {Nothing, Dry, Other}

Tidy(x) == [says |-> x, tidy |-> TRUE]

MCFactory == [main   |-> [ns |-> [name |-> "ugv", slash |-> TRUE], domain |-> "0",
                          rmw |-> "fastrtps", server |-> TRUE],
              params |-> Tidy(Unset), rmw |-> Tidy("pc"), ntp |-> Tidy("nuc")]

MCMeddled == {"params"}
=============================================================================
