---------------------------- MODULE MCCheatcodes ----------------------------
(* Instances of Cheatcodes for TLC. *)
EXTENDS Cheatcodes

\* One event twice with different data, and another event.
MCLogs == {<<"E", 1>>, <<"E", 2>>, <<"F", 1>>}

\* Cheatcodes that act on the same state are used together.
MCSuites == {{"call", "create", "prank", "broadcast"},
             {"call", "static", "broadcast", "expectCall"},
             {"call", "create", "expectRevert", "expectCall"},
             {"call", "static", "expectRevert", "expectEmit"},
             {"call", "create", "expectRevert", "record", "mockCall"}}

=============================================================================
