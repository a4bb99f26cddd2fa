----------------------------- MODULE MCEoasCommand -----------------------------
EXTENDS EoasCommand, TLC

CONSTANTS ios, android, c1

Line(kind) ==
  [kind |-> kind, platform |-> "all", tty |-> TRUE, nonInteractive |-> FALSE, check |-> TRUE,
   noVcs |-> FALSE, dir |-> "dist", token |-> TRUE, runner |-> None, runnerEnv |-> None]

PublishHere == Line("publish")
PublishInCI ==
  [PublishHere EXCEPT !.platform = ios, !.nonInteractive = TRUE, !.tty = FALSE]
PublishElsewhere ==
  [PublishHere EXCEPT !.platform = ios, !.nonInteractive = TRUE, !.dir = "out"]
PublishUnchecked ==
  [PublishInCI EXCEPT !.check = FALSE, !.noVcs = TRUE, !.runner = "bunx"]
Others ==
  { [Line("rollback") EXCEPT !.nonInteractive = TRUE],
    [Line("republish") EXCEPT !.platform = ios], Line("republish"),
    Line("init"),
    [Line("certs") EXCEPT !.token = FALSE] }

Alone ==
  [c \in Command |-> {PublishHere, PublishElsewhere, PublishUnchecked,
                     [PublishHere EXCEPT !.token = FALSE],
                     [Line("rollback") EXCEPT !.tty = FALSE]} \cup Others]
InCI == [c \in Command |-> {PublishInCI}]
Together ==
  [c \in Command |->
     IF c = c1
     THEN {[PublishHere EXCEPT !.platform = ios], Line("init"),
           [Line("rollback") EXCEPT !.nonInteractive = TRUE]}
     ELSE {PublishInCI, PublishElsewhere}]

Plain ==
  [expo |-> TRUE, git |-> TRUE, named |-> TRUE, antiBrickingOff |-> FALSE,
   managers |-> <<None, "pnpm">>, runners |-> {"npx", "pnpx"},
   native |-> [p \in Platform |-> {}], certs |-> TRUE,
   gitignore |-> {"node_modules"}, easignore |-> None, cli |-> "modern",
   runtime |-> [p \in Platform |-> [managed |-> "1.0", generic |-> "1.0"]]]

Bare ==
  [Plain EXCEPT !.native = [p \in Platform |-> {"native"}],
                !.runtime = [p \in Platform |->
                  [managed |-> "1.0", generic |-> IF p = android THEN None ELSE "2.0"]]]

Projects ==
  { Plain, Bare, [Plain EXCEPT !.expo = FALSE, !.certs = FALSE],
    [Plain EXCEPT !.git = FALSE, !.certs = FALSE],
    [Plain EXCEPT !.antiBrickingOff = TRUE, !.cli = "legacy"],
    [Plain EXCEPT !.managers = <<"bun", "npm">>, !.cli = "missing"] }

PlainOnly == {Plain}

OnApp ==
  { [form |-> "block", url |-> [origin |-> "ota", path |-> <<"app", "manifest">>],
     header |-> "stale"] }

Configs ==
  { [form |-> "static", url |-> [origin |-> "ota", path |-> <<"app", "manifest">>],
     header |-> "stale"] ,
    [form |-> "none", url |-> None, header |-> None] }

Releases ==
  { [by |-> None, platform |-> p, server |-> "ota", app |-> "app", what |-> "update"] :
      p \in Platform }

Servers == {"ota"}

================================================================================
