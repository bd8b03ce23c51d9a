-------------------------- MODULE MCReconciliation --------------------------
\* Two sessions of one pack: a browser without a controller (pid 10), and a
\* controller (pid 20) with its browser, leased to a command (pid 5).
EXTENDS Reconciliation, TLC

Pack == [id |-> Playwright, rank |-> 1, mode |-> "automatic", product |-> "chrome_for_testing",
         versions |-> {"v1"}, task |-> "1", session |-> "1"]
MCPacks == {Pack}

Process(birth, parent) ==
    [birth |-> birth, parent |-> parent, group |-> 0, uid |-> "user", tty |-> FALSE, facts |-> TRUE,
     controllerOf |-> {}, browserOf |-> {}, frameworkOf |-> {}, recorder |-> {}, helper |-> "none",
     headless |-> FALSE, pipe |-> FALSE, port |-> FALSE, profile |-> {}, bundle |-> {},
     peer |-> FALSE, peerFacts |-> TRUE, socketFacts |-> TRUE, sessionFacts |-> TRUE,
     socket |-> FALSE, cli |-> {}, tag |-> {}]

Chrome == [product |-> "chrome_for_testing", version |-> "v1"]
Temporary(path) == [path |-> path, markers |-> {Playwright}, temp |-> TRUE, standard |-> FALSE]
Browser(birth, parent, path) ==
    [Process(birth, parent) EXCEPT !.browserOf = {Playwright}, !.headless = TRUE, !.pipe = TRUE,
                                   !.profile = {Temporary(path)}, !.bundle = {Chrome}]
Helper(birth) == [Process(birth, 10) EXCEPT !.helper = "renderer", !.bundle = {Chrome}]
Controller(birth) ==
    [Process(birth, 1) EXCEPT !.controllerOf = {Playwright}, !.frameworkOf = {Playwright},
                              !.cli = {[session |-> "s", task |-> TRUE, version |-> "1",
                                        persistent |-> FALSE, attached |-> FALSE]},
                              !.tag = {"s"}]

Launchd == Process(1, 0)
Plain(b) == 1 :> Launchd @@ 10 :> b
Orphan == Plain(Browser(1, 1, "a"))
Led(c, b) == 1 :> Launchd @@ 20 :> c @@ 21 :> b
Left == Led(Controller(1), Browser(1, 20, "b"))

MCTableOf ==
    [none    |-> 1 :> Launchd,
     orphan  |-> Orphan,
     bigger  |-> Orphan @@ 11 :> Helper(1),
     grown   |-> Orphan @@ 11 :> Helper(3),
     peered  |-> Plain([Browser(1, 1, "a") EXCEPT !.peer = TRUE]),
     again   |-> Plain(Browser(3, 1, "a")),
     led     |-> Left,
     client  |-> Led([Controller(1) EXCEPT !.socket = TRUE], Browser(1, 20, "b")),
     working |-> Left @@ 7 :> [Process(1, 1) EXCEPT !.tag = {"s"}],
     taken   |-> Led(Controller(2), Browser(2, 20, "b")),
     both    |-> Left @@ 10 :> Browser(1, 1, "a"),
     bothpeered |-> Left @@ 10 :> [Browser(1, 1, "a") EXCEPT !.peer = TRUE],
     headed  |-> Plain([Browser(1, 1, "a") EXCEPT !.headless = FALSE]),
     foreign |-> Plain([Browser(1, 1, "a") EXCEPT !.bundle = {[product |-> "chrome", version |-> "v1"]}])]

MCMoves == {<<"bigger", "orphan">>, <<"orphan", "grown">>, <<"orphan", "peered">>,
            <<"peered", "orphan">>, <<"orphan", "none">>, <<"none", "again">>,
            <<"client", "led">>, <<"led", "client">>, <<"working", "led">>, <<"led", "none">>,
            <<"led", "taken">>, <<"both", "bothpeered">>, <<"bothpeered", "both">>}

MCJumps == {-1, 1}
MCOwner == [Process(1, 1) EXCEPT !.tag = {"s"}]
MCBound == [pid |-> 20, birth |-> 1, session |-> "s", version |-> "1"]

Machine(scenes, start, led, ticks, upset, kinds, who) ==
    [scenes |-> scenes, start |-> start, led |-> led, until |-> StartTime + ticks,
     upsets |-> upset, kinds |-> kinds, clients |-> who, suspects |-> {10, 20, 21}]

MCMachines ==
    {Machine({"bigger", "orphan", "none"}, "bigger", FALSE, 3, 1,
             {"jump", "restart", "disarm", "hide", "blind", "fail"}, {}),
     Machine({"orphan", "grown", "peered"}, "orphan", FALSE, 3, 1, {"jump"}, {}),
     Machine({"orphan"}, "orphan", FALSE, 3, 3, {"protect", "hide"}, {"app"}),
     Machine({"orphan"}, "orphan", FALSE, 3, 3, {"protect", "other", "request"}, Clients),
     Machine({"orphan", "none", "again"}, "orphan", FALSE, 3, 3, {"fails", "retry", "hide"}, {"cli"}),
     Machine({"orphan"}, "orphan", FALSE, 5, 3, {"fails", "retry", "other"}, Clients),
     Machine({"led", "client", "working", "taken", "none"}, "working", TRUE, 3, 0, {}, {}),
     Machine({"both", "bothpeered"}, "both", TRUE, 2, 0, {}, {}),
     Machine({"headed"}, "headed", FALSE, 1, 1, {"hide", "blind"}, {}),
     Machine({"foreign"}, "foreign", FALSE, 1, 1, {"hide", "blind"}, {})}
=============================================================================
