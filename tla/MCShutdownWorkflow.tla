------------------------- MODULE MCShutdownWorkflow --------------------------
(* ShutdownWorkflow with two small groups, for TLC. *)
EXTENDS ShutdownWorkflow

Group(methods, parallel, ceiling) ==
  [methods |-> methods, parallel |-> parallel, ceiling |-> ceiling]

\* Hosts in parallel, then what they depend on, one by one, and the reverse.
HostsThenStorage ==
  <<Group(<<"ssh_key", "command">>, TRUE, TRUE),
    Group(<<"command">>, FALSE, TRUE)>>
StorageThenHosts ==
  <<Group(<<"ssh_key", "command">>, FALSE, TRUE),
    Group(<<"ssh_password", "unknown">>, TRUE, TRUE)>>
\* Without a ceiling the worker has nothing but its children to wait for.
WithEmptyGroup ==
  <<Group(<<>>, TRUE, FALSE), Group(<<"ssh_key", "command">>, TRUE, FALSE)>>
NothingToDo == <<>>

AllPlans == {HostsThenStorage, StorageThenHosts, WithEmptyGroup, NothingToDo}
Limited  == {StorageThenHosts}

Setting(mode, controller) ==
  [ups_mode |-> mode, controller_enabled |-> controller]
AllSettings == {Setting(m, c) : m \in {"none", "command", "register", "other"},
                                c \in BOOLEAN}

NoFaults  == {{}}
ForkFails == {{"fork"}}
AnyFault  == {{}, {"alloc"}, {"db"}, {"fork"}}
==============================================================================
