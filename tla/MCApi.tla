------------------------------- MODULE MCApi -------------------------------
(* Instances of Api for TLC.  One client asks from its own address, the other *)
(* through a proxy that is trusted to name it.                              *)
EXTENDS Api, TLC

CONSTANTS here, there, proxy, ann, bob, t, r1, r2, r3, r4

MCBurst == [table \in Tables |-> IF table = "stream" THEN 2 ELSE 1]

Ask(route, client) ==
    [route |-> route, method |-> IF route \in {"select", "add", "position"} THEN "POST" ELSE "GET",
     json |-> TRUE, peer |-> IF client = ann THEN here ELSE proxy,
     forwarded |-> IF client = ann THEN here ELSE there,
     client |-> client, token |-> TRUE, valid |-> TRUE, torrent |-> t, file |-> 0]

Bare(ask) == [ask EXCEPT !.token = FALSE]
At(ask, address) == [ask EXCEPT !.peer = address]

\* One address asks as fast as it can, over the cleanup, while another takes
\* what belongs to everybody.
Crowd == [asks |-> (r1 :> {Bare(Ask("list", ann))}) @@ (r2 :> {Bare(Ask("list", ann))})
                   @@ (r3 :> {Bare(Ask("list", ann)), Bare(Ask("position", ann))})
                   @@ (r4 :> {Ask("metrics", bob), Bare(Ask("list", ann))}),
          owner |-> (t :> Nobody), start |-> 0]

Everybody == [asks |-> (r1 :> {Ask("stream", ann)}) @@ (r2 :> {Ask("stream", bob)})
                       @@ (r3 :> {Ask("stream", bob)}) @@ (r4 :> {Ask("metrics", bob)}),
              owner |-> (t :> Nobody), start |-> MaxTime - 1]

\* Two clients select, stream, remove and add the same torrent.
Sharing == [asks |-> (r1 :> {Ask("select", ann)})
                     @@ (r2 :> {[Ask("select", bob) EXCEPT !.file = 1]})
                     @@ (r3 :> {At(Ask("remove", ann), proxy), Ask("stream", ann),
                                At(Ask("add", bob), here)})
                     @@ (r4 :> {Ask("stream", ann), Ask("stream", bob)}),
            owner |-> (t :> Nobody), start |-> MaxTime]

\* Whatever else is asked, well or badly.
Asking == [asks |-> (r1 :> {Ask(route, bob) : route \in
                              {"files", "magnet", "subtitles", "info", "position", "version", "list"}})
                    @@ (r2 :> { Bare(Ask("select", ann)), Bare(Ask("stream", ann)),
                                [Ask("select", ann) EXCEPT !.valid = FALSE],
                                [Ask("stream", ann) EXCEPT !.valid = FALSE],
                                [Ask("select", ann) EXCEPT !.json = FALSE],
                                [Ask("select", ann) EXCEPT !.file = 7],
                                [Ask("select", ann) EXCEPT !.method = "OPTIONS"],
                                [Ask("subtitles", ann) EXCEPT !.file = 7] })
                    @@ (r3 :> {Ask("add", bob), Ask("remove", bob), At(Ask("select", ann), there)})
                    @@ (r4 :> {}),
           owner |-> (t :> ann), start |-> MaxTime]

MCPlans == {Crowd, Everybody, Sharing, [Sharing EXCEPT !.owner = (t :> ann)], Asking,
            [Asking EXCEPT !.owner = (t :> "absent")]}
=============================================================================
