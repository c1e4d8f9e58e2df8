---------------------------- MODULE MCRunHistory ----------------------------
\* The histories RunHistory is checked from: a new thread, and threads whose
\* history a stream error or an older writer left without its pairs.
EXTENDS RunHistory

Begun == Request(<<User(0)>>)
PastsDamaged ==
  {<<>>,
   <<Begun, Response(<<Call(91)>>)>>,
   <<Begun, Response(<<Call(91), Call(92)>>), Request(<<Return(91, "ok", "big"), Return(91, "ok", "small")>>)>>,
   <<Begun, Response(<<Call(91)>>), Request(<<Return(91, "retried", "small"), Return(91, "ok", "small")>>),
     Request(<<Return(93, "ok", "small")>>), Response(<<Text>>)>>}
PastsNew == {<<>>}
=============================================================================
