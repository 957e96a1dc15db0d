------------------------------- MODULE Ladder -------------------------------
(***************************************************************************)
(* A driver's initialisation and cleanup, as the goto labels of this       *)
(* repository write them: resources are acquired one after the other, a    *)
(* step that fails releases what its label says, and cleanup releases the  *)
(* resources in an order of its own.                                       *)
(***************************************************************************)
EXTENDS Naturals, Sequences

CONSTANTS
  Acquired,  \* the resources, in the order in which they are acquired
  UndoneBy,  \* what the label of a step that can fail releases
  Released   \* the resources, in the order in which cleanup releases them

VARIABLES
  at,        \* <<"off", 0>>, <<"init", i>>, <<"on", 0>> or <<"exit", i>>
  held       \* resources acquired and not released

Resources == {Acquired[i] : i \in DOMAIN Acquired}

TypeOK ==
  /\ at \in ({"off", "on"} \X {0}) \cup ({"init"} \X DOMAIN Acquired)
              \cup ({"exit"} \X DOMAIN Released)
  /\ held \subseteq Resources

Init ==
  /\ at = <<"off", 0>>
  /\ held = {}

Begin ==
  /\ at = <<"off", 0>>
  /\ at' = <<"init", 1>>
  /\ UNCHANGED held

\* Step i succeeds.
Acquire(i) ==
  /\ at = <<"init", i>>
  /\ at' = IF i = Len(Acquired) THEN <<"on", 0>> ELSE <<"init", i + 1>>
  /\ held' = held \cup {Acquired[i]}

\* Step i is through, and leaves nothing that would have to be released.
Pass(i) ==
  /\ at = <<"init", i>>
  /\ at' = IF i = Len(Acquired) THEN <<"on", 0>> ELSE <<"init", i + 1>>
  /\ UNCHANGED held

\* Step i fails.
Fail(i) ==
  /\ at = <<"init", i>>
  /\ Acquired[i] \in DOMAIN UndoneBy
  /\ at' = <<"off", 0>>
  /\ held' = held \ UndoneBy[Acquired[i]]

Quit ==
  /\ at = <<"on", 0>>
  /\ at' = <<"exit", 1>>
  /\ UNCHANGED held

Release(i) ==
  /\ at = <<"exit", i>>
  /\ at' = IF i = Len(Released) THEN <<"off", 0>> ELSE <<"exit", i + 1>>
  /\ held' = held \ {Released[i]}

\* Nothing is held when the driver is out, whatever failed on the way in.
Balanced == at = <<"off", 0>> => held = {}
=============================================================================
