----------------------------- MODULE MCInstaller -----------------------------
(* Instances of Installer for TLC: what is applied, and how much of it.     *)
EXTENDS Installer

Form(kind, stop, start, release, verify) ==
    [kind |-> kind, stop |-> stop, start |-> start, release |-> release, verify |-> verify]
Bound(shapes, others, ops, limit) ==
    [shapes |-> shapes, others |-> others, ops |-> ops, faults |-> limit]

PlainUpdate == Form("update", FALSE, FALSE, FALSE, FALSE)
CompositeUpdate == Form("update", TRUE, TRUE, TRUE, TRUE)
CompositeRollback == Form("rollback", TRUE, TRUE, FALSE, FALSE)

\* Plain updates one after another; one composite update; a composite rollback or a command that
\* changes no program file; a plain update around a stop.
AllBounds ==
    {Bound({PlainUpdate}, {}, 3, 2), Bound({CompositeUpdate}, {}, 1, 2),
     Bound({CompositeRollback}, {"stop", "start", "release"}, 1, 1),
     Bound({PlainUpdate}, {"stop"}, 2, 1)}

\* One composite update.
OneComposite == {Bound({CompositeUpdate}, {}, 1, 1)}
=============================================================================
