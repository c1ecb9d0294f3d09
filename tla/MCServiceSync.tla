---------------------------- MODULE MCServiceSync ----------------------------
(* One service, two addresses; each configuration gives the objects, the     *)
(* modes and the faults it is about.                                         *)
EXTENDS ServiceSync

CONSTANTS s1, s2, a1, a2, x, y

Obj(sync, attrs, enableRegister) ==
  [sync |-> sync, attrs |-> attrs, enableRegister |-> enableRegister]

LiveObjects == {Obj("true", x, "unset"), Obj("true", y, "unset"),
                Obj("true", x, "false")}
RemovableObjects == {Obj("true", x, "unset"), Obj("false", x, "unset")}
NamespaceObjects == {Obj("unset", x, "unset"), Obj("ignored", x, "unset")}
=============================================================================
