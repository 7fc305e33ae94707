------------------------- MODULE MCExtendedSession -------------------------
(* Small lives of an extended session.                                     *)
EXTENDS ExtendedSession, TLC

CONSTANTS h1, h2, user

TwoHandlers == {h1, h2}
OneUser == {user}

Nothing == [s \in Slots |-> NoHandler]
Idle == (user :> <<>>) @@ (Pass :> <<>>)
NoReplies == [m \in Mids |-> 0]
Set(slot, handler) == [slot |-> slot, handler |-> handler]

(* A handler of all messages becomes one of the first message's name, and  *)
(* the other way round; replies are sent, and the handler of what is sent  *)
(* changes.                                                                *)
ToName ==
    [table |-> [Nothing EXCEPT !["any"] = h1],
     script |-> [Idle EXCEPT ![user] = <<Set("a", h1), Set("any", NoHandler)>>],
     arrives |-> <<"a", "b">>, replies |-> NoReplies, timeouts |-> 0]

ToAny ==
    [table |-> [Nothing EXCEPT !["a"] = h1],
     script |-> [Idle EXCEPT ![user] = <<Set("any", h1), Set("a", NoHandler)>>],
     arrives |-> <<"a", "a">>, replies |-> NoReplies, timeouts |-> 0]

Answering ==
    [table |-> [Nothing EXCEPT !["a"] = h1, !["any"] = h2, !["error"] = h1],
     script |-> [Idle EXCEPT ![Pass] = <<Set("a", NoHandler), Set("sent", h2)>>],
     arrives |-> <<"a", "a">>, replies |-> [m \in Mids |-> m], timeouts |-> 0]

Sending ==
    [table |-> [Nothing EXCEPT !["any"] = h1, !["timeout"] = h1, !["after"] = h2],
     script |-> [Idle EXCEPT ![user] = <<[mid |-> 1, handler |-> h2], Set("after", NoHandler)>>],
     arrives |-> <<"b">>, replies |-> [NoReplies EXCEPT ![2] = 1], timeouts |-> 1]

Busy ==
    [table |-> [Nothing EXCEPT !["any"] = h1, !["sent"] = h2],
     script |-> [Idle EXCEPT ![user] =
                    <<Set("a", h1), Set("any", NoHandler), [mid |-> 1, handler |-> h1]>>],
     arrives |-> <<"a", "a">>, replies |-> [NoReplies EXCEPT ![2] = 1], timeouts |-> 0]

SmallPlans == {ToName, ToAny, Answering, Sending, Busy}
=============================================================================
