--------------------------- MODULE MCStreamCalls ----------------------------
(* Instances of StreamCalls: a client that calls a server that has a       *)
(* handler for "play" and one for "play2", which starts with "play".       *)
EXTENDS StreamCalls

PlayNames == {"play", "play2"}
PlayPrefix == {<<"play2", "play">>}

Tiding(kind, cut) ==
    [kind |-> kind, name |-> "play", num |-> 0, answer |-> FALSE, cut |-> cut]
AllTidings == {Tiding("dat", TRUE), Tiding("usr", FALSE), Tiding("av", TRUE)}
=============================================================================
