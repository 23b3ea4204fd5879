------------------------------ MODULE MCReplay ------------------------------
(* Small instances of Replay for TLC: an agent that asks a model, reads with *)
(* "search" and writes with "create".                                        *)
EXTENDS Replay, TLC

CONSTANTS p1, p2, search, create, a, b

\* A hash is what it is taken over: the plane, the tool, its arguments and the
\* id of the request.
Prompt(p)        == [kind |-> "model", tool |-> NoTool, args |-> NoArgs,
                     hash |-> <<"model", p>>]
Call(t, args, n) == [kind |-> "tool", tool |-> t, args |-> args,
                     hash |-> <<"tool", t, args, n>>]

\* A request as the recorder writes it down at a step.
At(n, q) == [kind |-> q.kind, tool |-> q.tool, args |-> q.args, hash |-> q.hash, step |-> n,
             method |-> IF q.kind = "tool" THEN "tools/call" ELSE "",
             contract |-> TRUE, held |-> TRUE]
Hello(n) == [At(n, Call(NoTool, NoArgs, 0)) EXCEPT !.method = "initialize"]

\* What was recorded: a plain session; the same call twice; one behind a
\* handshake; one whose payload is lost; one of a suppressor and a session that
\* number their calls apart; a call without arguments, first of its tool and
\* without a contract.
Simple   == << At(0, Prompt(p1)), At(1, Call(search, a, 1)) >>
Twice    == << At(0, Call(search, a, 1)), At(1, Call(search, b, 2)), At(2, Call(search, a, 1)) >>
Greeted  == << Hello(0), At(1, Prompt(p1)), At(2, Call(search, a, 1)) >>
Broken   == << At(0, Prompt(p1)), [At(1, Call(search, a, 1)) EXCEPT !.held = FALSE] >>
Shadowed == << At(0, Prompt(p1)), At(0, Call(create, a, 1)) >>
Bare     == << [At(0, Call(search, NoArgs, 1)) EXCEPT !.contract = FALSE], At(1, Call(search, a, 2)) >>

Of(recording, mode, agent) ==
  [recording |-> recording, mode |-> mode, agent |-> agent,
   forked |-> IF mode = "hybrid" THEN {search} ELSE {}, endpoints |-> {},
   effects |-> (search :> "read") @@ (create :> "write"), provider |-> mode # "fail"]

\* Agents: one that asks and reads, one that numbers its calls otherwise, one
\* that reads without arguments, one that writes.
Asker    == {Prompt(p1), Prompt(p2), Call(search, a, 1), Call(search, b, 2)}
Reader   == {Call(search, a, 1), Call(search, a, 2), Call(search, b, 2)}
Browser  == {Call(search, NoArgs, 1), Call(search, a, 2), Call(search, b, 2)}
Writer   == {Prompt(p1), Call(search, a, 1), Call(create, a, 1)}

\* A manifest that asserts no effect for the tool, and no provider to forward to.
Unclassified == [Of(Simple, "hybrid", Asker) EXCEPT
                   !.effects = (search :> "") @@ (create :> "write"), !.provider = FALSE]

\* A read and a write forked to servers that can be reached, as a server that is
\* not the driver's may have them.
ForkedRead  == [Of(Simple, "hybrid", Writer) EXCEPT !.endpoints = {search, create}]
ForkedWrite == [ForkedRead EXCEPT !.forked = {create}]

Live == "model-live-tools-replayed"
AllReplays ==
  { Of(Simple, "fail", Asker), Of(Twice, "fail", Reader), Of(Greeted, "fail", Asker),
    Of(Shadowed, "fail", Writer), Of(Bare, "fail", Browser),
    Of(Simple, Live, Asker), Of(Twice, Live, Reader), Of(Broken, Live, Writer),
    Of(Simple, "hybrid", Writer), Unclassified, ForkedRead, ForkedWrite }

\* A session behind a handshake alone.
GreetedReplay == { Of(Greeted, "fail", Asker) }

AllRequests == Asker \cup Reader \cup Browser \cup Writer

\* Everything as recorded, or one tool changed and the other gone or unreachable.
AllWorlds == {[t \in {search, create} |-> "same"],
              (search :> "changed") @@ (create :> "gone"),
              (search :> "gone") @@ (create :> "unreachable")}
=============================================================================
