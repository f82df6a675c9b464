----------------------------- MODULE MCTokenFlow -----------------------------
(***************************************************************************)
(* Small processes for TokenFlow.  A graph is given by the type and the    *)
(* subprocess of each node and by its flows, in document order.            *)
(***************************************************************************)
EXTENDS TokenFlow

(* ns: <<id, type, parent>>; fs: <<id, from, to>>.                         *)
MakeGraph(ns, fs, multi, extended) ==
  [nodes    |-> [i \in DOMAIN ns |-> ns[i][1]],
   flows    |-> [i \in DOMAIN fs |-> fs[i][1]],
   type     |-> [n \in { ns[i][1] : i \in DOMAIN ns } |->
                   (CHOOSE d \in ToSet(ns) : d[1] = n)[2]],
   parent   |-> [n \in { ns[i][1] : i \in DOMAIN ns } |->
                   (CHOOSE d \in ToSet(ns) : d[1] = n)[3]],
   from     |-> [f \in { fs[i][1] : i \in DOMAIN fs } |->
                   (CHOOSE d \in ToSet(fs) : d[1] = f)[2]],
   to       |-> [f \in { fs[i][1] : i \in DOMAIN fs } |->
                   (CHOOSE d \in ToSet(fs) : d[1] = f)[3]],
   multi    |-> multi,
   extended |-> multi \cup extended]

(* A loop.  In it a fork: a task on one branch, a choice that merges again *)
(* on the other, and the join of the two.                                  *)
Blocks == MakeGraph(
  << <<"s", "startEvent", "process">>, <<"again", "exclusiveGateway", "process">>,
     <<"fork", "parallelGateway", "process">>, <<"a", "userTask", "process">>,
     <<"choice", "exclusiveGateway", "process">>, <<"b", "serviceTask", "process">>,
     <<"merge", "exclusiveGateway", "process">>, <<"d", "serviceTask", "process">>,
     <<"join", "parallelGateway", "process">>, <<"loop", "exclusiveGateway", "process">>,
     <<"e", "endEvent", "process">> >>,
  << <<"f1", "s", "again">>, <<"f2", "again", "fork">>, <<"f3", "fork", "a">>,
     <<"f4", "a", "join">>, <<"f5", "fork", "choice">>, <<"f6", "choice", "b">>,
     <<"f7", "b", "merge">>, <<"f8", "choice", "merge">>, <<"f9", "merge", "d">>,
     <<"f10", "d", "join">>, <<"f11", "join", "loop">>, <<"f12", "loop", "again">>,
     <<"f13", "loop", "e">> >>,
  {}, {})

(* A loop.  In it a multi-instance task, then an external subprocess next  *)
(* to an embedded one.  In that first a subprocess of its own, which forks *)
(* and has two ends, then a multi-instance external one.  Two ends of the  *)
(* whole.                                                                  *)
Scopes == MakeGraph(
  << <<"s", "startEvent", "process">>, <<"again", "exclusiveGateway", "process">>,
     <<"m", "userTask", "process">>,
     <<"fork", "parallelGateway", "process">>, <<"sub", "subProcess", "process">>,
       <<"is", "startEvent", "sub">>, <<"inner", "subProcess", "sub">>,
         <<"js", "startEvent", "inner">>, <<"jfork", "parallelGateway", "inner">>,
         <<"u", "userTask", "inner">>,
         <<"je1", "endEvent", "inner">>, <<"je2", "endEvent", "inner">>,
       <<"x", "subProcess", "sub">>, <<"ie", "endEvent", "sub">>,
     <<"ext", "subProcess", "process">>,
     <<"join", "parallelGateway", "process">>, <<"loop", "exclusiveGateway", "process">>,
     <<"fork2", "parallelGateway", "process">>,
     <<"e1", "endEvent", "process">>, <<"e2", "endEvent", "process">> >>,
  << <<"f0", "s", "again">>, <<"f1", "again", "m">>, <<"f2", "m", "fork">>, <<"f3", "fork", "sub">>,
     <<"f4", "fork", "ext">>, <<"f5", "is", "inner">>, <<"f6", "js", "jfork">>,
     <<"f7", "jfork", "je1">>, <<"f8", "jfork", "u">>, <<"f9", "u", "je2">>,
     <<"f10", "inner", "x">>, <<"f11", "x", "ie">>, <<"f12", "sub", "join">>,
     <<"f13", "ext", "join">>, <<"f14", "join", "loop">>, <<"f15", "loop", "again">>,
     <<"f16", "loop", "fork2">>, <<"f17", "fork2", "e1">>, <<"f18", "fork2", "e2">> >>,
  {"m", "x"}, {"ext"})

------------------------------------------------------------------------------
(* A process the engine gets wrong.                                        *)

MergeIntoJoin == MakeGraph(
  << <<"s", "startEvent", "process">>, <<"fork", "parallelGateway", "process">>,
     <<"choice", "exclusiveGateway", "process">>, <<"a", "userTask", "process">>,
     <<"merge", "exclusiveGateway", "process">>, <<"join", "parallelGateway", "process">>,
     <<"e", "endEvent", "process">> >>,
  << <<"f1", "s", "fork">>, <<"f2", "fork", "choice">>,
     <<"f3", "choice", "a">>, <<"f4", "a", "merge">>,
     <<"f5", "choice", "merge">>, <<"f6", "merge", "join">>,
     <<"f7", "fork", "join">>, <<"f8", "join", "e">> >>,
  {}, {})

=============================================================================
