-------------------------- MODULE MCDependencyPaths --------------------------
(* Instances of DependencyPaths with the layouts of sys.path its docstring  *)
(* lists, and modules that two or three paths have.                         *)
EXTENDS DependencyPaths

MCProvides ==
    [azure |-> {"worker", "deps"}, google |-> {"worker"},
     shared |-> {"worker", "dir"}, helper |-> {"deps", "dir"},
     common |-> {"worker", "deps", "dir"}]

MCModules == DOMAIN MCProvides

MCLayouts ==
    {<<"deps", "worker">>,              \* Linux, from PYTHONPATH
     <<"deps", "worker", "dir">>,       \* Linux Consumption
     <<"dir", "deps", "worker">>,       \* Linux Dedicated
     <<"worker", "deps", "dir">>}       \* Core Tools
=============================================================================
