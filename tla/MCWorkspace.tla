------------------------------ MODULE MCWorkspace ------------------------------
(***************************************************************************)
(* Two processes over databases of six ages and plugins of both layouts.  *)
(* Bodies v1 and v2 register one detector, w another, x does not import.   *)
(***************************************************************************)
EXTENDS Workspace, TLC

Plain(b, body) == [manifest |-> NoManifest, body |-> body]
Named(b, body) == [manifest |-> b, body |-> body]
Flat(b) == [kind |-> "flat", base |-> b]
MCDetectorOf == [v1 |-> "d", v2 |-> "d", w |-> "e", x |-> "f"]
Nothing == [u \in Places |-> Absent]
MCInitial ==
    {[db |-> old, tree |-> Nothing] : old \in {OfVersion(v) : v \in {0, 3, 5, 7, 8, 11}}}
    \cup {[db |-> OfVersion(10), tree |-> [Nothing EXCEPT ![Dir("a")] = Named("a", "v1"), ![Dir("b")] = Named("b", "w")]],
          [db |-> OfVersion(10), tree |-> [Nothing EXCEPT ![Flat("a")] = Plain("a", "v1"), ![Dir("b")] = Named("b", "w")]]}
MCSources == {[name |-> "a", manifest |-> TRUE, body |-> "v2"], [name |-> "b", manifest |-> FALSE, body |-> "w"]}
MCEdits == [u \in Places |->
    CASE u = Dir("a") -> {Named("a", "v2"), Named("b", "v1"), Absent}
      [] u = Dir("b") -> {Named("b", "x"), Named("a", "w")}
      [] u = Flat("a") -> {Absent, Plain("a", "v2")}
      [] OTHER -> {}]
ClientSymmetry == Permutations(Clients)
=============================================================================
