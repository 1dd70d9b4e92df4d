----------------------------- MODULE MCExecution -----------------------------
EXTENDS Execution

Vol(l) == [Mutation EXCEPT !.kind = "volume", !.level = l]
Mode == [Mutation EXCEPT !.kind = "mode"]
Unmute == [Mutation EXCEPT !.kind = "mute"]
State(s) == [Mutation EXCEPT !.kind = "transport", !.state = s]
Queue(q) == [Mutation EXCEPT !.kind = "queue", !.ids = q]
More(q) == [Mutation EXCEPT !.kind = "append", !.ids = q]
Prune(k) == [Mutation EXCEPT !.kind = "remove", !.n = k]
Skip(d) == [Mutation EXCEPT !.kind = "skip", !.direction = d]

Op(from, steps) == [from |-> from, steps |-> steps, disturbed |-> 2,
                    bounded |-> FALSE, ordered |-> FALSE, buffered |-> FALSE]
Alone == {"play", "pause", "stop"}
Idle == {"pause", "stop"}

MCPrograms == {
  Op(Alone, <<Vol(2)>>), Op(Alone, <<Unmute>>), Op(Idle, <<State("play")>>),
  Op(Alone, <<Skip("next")>>),
  Op({"play"}, <<State("stop"), Queue(<<"a", "b">>)>>), Op({"pause"}, <<Vol(2), Mode, Unmute>>),
  [Op({"pause"}, <<Queue(<<"a", "b">>), Vol(2), State("stop")>>) EXCEPT !.bounded = TRUE],
  [Op({"stop"}, <<Queue(<<"a", "a", "b">>), Skip("next"), Prune(1), More(<<"a">>)>>)
     EXCEPT !.disturbed = 1, !.bounded = TRUE, !.ordered = TRUE, !.buffered = TRUE]}

Old == [state |-> "stop", volume |-> 1, muted |-> FALSE, repeat |-> 0, shuffle |-> 0,
        media |-> [id |-> "x", qid |-> 1], queue |-> Number(<<"x", "a">>)]
MCPlayers == {Old, [Old EXCEPT !.state = "play"], [Old EXCEPT !.state = "pause", !.muted = TRUE, !.repeat = 1]}
====
