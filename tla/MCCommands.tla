----------------------------- MODULE MCCommands -----------------------------
EXTENDS CommandsProps
CONSTANTS a, b, g, x

On(op) == [op |-> op, ch |-> x]
Op(op) == [op |-> op]
MCLines ==
  { <<On("lock"), Op("if"), On("unlock")>>, <<On("wait"), Op("plain")>>, <<On("signal")>>,
    <<Op("fail"), Op("plain")>>,
    <<[op |-> "wake", ch |-> x, who |-> b]>>, <<[op |-> "event", on |-> "resized"]>>,
    <<[op |-> "rouse", on |-> "resized", who |-> a]>> }
MCThen == <<Op("fail")>>
MCHooks == [after |-> <<Op("plain")>>, error |-> <<>>, detached |-> <<Op("job"), Op("fail")>>,
            resized |-> <<Op("plain")>>]

\* LockExclusive is only promised under this condition on the lines.
ASSUME OwnLocks
=============================================================================
