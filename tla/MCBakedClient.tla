---------------------------- MODULE MCBakedClient ----------------------------
(* An instance of BakedClient: the commands of the CLI and of the tools.     *)
EXTENDS BakedClient

CONSTANTS one, other    \* two runs that are alike

Twins == Permutations({one, other})

Plain ==
  [kind |-> "sync", of |-> {}, dir |-> Dirs[1], pin |-> "yes", force |-> "no",
   accept |-> "no", breaks |-> "no", moves |-> "no"]

Verify == [Plain EXCEPT !.kind = "verify"]

(* swfte add <ref> --alias a --out d *)
Add(a, d) == [Plain EXCEPT !.kind = "add", !.of = {a}, !.dir = d]

(* swfte upgrade a *)
Upgrade(a) == [Plain EXCEPT !.of = {a}, !.breaks = "yes", !.moves = "yes"]

Forced(c)   == [c EXCEPT !.force = "yes"]
Accepted(c) == [c EXCEPT !.accept = "yes"]
Unpinned(c) == [c EXCEPT !.pin = "no"]

OneAlias == <<"rank">>
OneDir   == <<"src">>

EveryCommand ==
  {Plain, Forced(Plain), Verify, Add("rank", "src"), Unpinned(Add("rank", "src")),
   Forced(Add("rank", "src")), Upgrade("rank"), Forced(Upgrade("rank")),
   Accepted(Upgrade("rank"))}

Straight == <<1, 2, 3>>

(* A developer alone with every command; two runs at once; and a workflow    *)
(* that is published again in the middle of an upgrade.                      *)
MCRuns == [alone |-> {"r"}, together |-> {one, other}, raced |-> {"r"}]
MCCommands ==
  [alone |-> EveryCommand, together |-> {Plain, Add("rank", "src")},
   raced |-> {Plain, Add("rank", "src"), Upgrade("rank")}]
MCFailures == [alone |-> {"upgrades", "contract", "lookup", "unsupported", "crash"}, together |-> {}, raced |-> {}]
MCMaxChanges == [alone |-> 4, together |-> 2, raced |-> 2]
=============================================================================
