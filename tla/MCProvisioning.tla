-------------------------- MODULE MCProvisioning ---------------------------
(* A small instance of Provisioning for TLC. *)
EXTENDS Provisioning, TLC

S(do, key, value) == [do |-> do, key |-> key, value |-> value]

(* setup makes an agent with its project, and then registers its host and  *)
(* a model; the other setup has the same agent in another project; two     *)
(* registrations name the same models in opposite order.                   *)
Commands ==
    [setup    |-> << <<S("setup", "project", "a"), S("setup", "agent", "a")>>,
                     <<S("put", "host", "h"), S("put", "m1", "x"),
                       S("verify", "host", "h"), S("verify", "m1", "x")>> >>,
     moved    |-> << <<S("setup", "project2", "b"), S("setup", "agent", "b")>> >>,
     models   |-> << <<S("put", "m1", "x"), S("verify", "m1", "x"),
                       S("put", "m2", "y"), S("verify", "m2", "y")>> >>,
     reversed |-> << <<S("put", "m2", "y"), S("verify", "m2", "y"),
                       S("put", "m1", "z"), S("verify", "m1", "z")>> >>]
=============================================================================
