----------------------------- MODULE MCDatabase -----------------------------
(***************************************************************************)
(* Instances of Database.  Two processes of one pid, the first known by    *)
(* its open calls only, a child of the second, and open calls of a short   *)
(* path and of two long ones with the same end, two of them at once.       *)
(***************************************************************************)
EXTENDS Database

short == [name |-> "short", suffix |-> "a", fills |-> FALSE]
long1 == [name |-> "long1", suffix |-> "z", fills |-> TRUE]
long2 == [name |-> "long2", suffix |-> "z", fills |-> TRUE]

MCPaths == {short, long1, long2}

Call(i, t, p) == [id |-> i, time |-> t, path |-> p]

Process(c, p, t, pp, pt, calls) ==
    [cmd |-> c, pid |-> p, time |-> t, ppid |-> pp, ptime |-> pt, calls |-> calls]

unknown == Process("unknown", 4, 0, 1, 0, <<Call(1, 2, long1)>>)
parent == Process("parent", 4, 1, 1, 0, <<Call(2, 5, short), Call(3, 2, long2)>>)
child == Process("child", 6, 3, 4, 1, <<Call(4, 4, short), Call(5, 5, short)>>)

MCJobs == <<unknown, parent, child>>
=============================================================================
