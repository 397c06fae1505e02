---------------------------- MODULE MCBroadcaster ----------------------------
EXTENDS MetatransactionBroadcaster

plain == [call |-> "other"]
arbitrary(a, p) == [call |-> "arbitrary", targets |-> a, payloads |-> p]
relayed == arbitrary(<<"ethBridge", "bnbBridge">>, <<"requireToPassMessage", "requireToPassMessage">>)
elsewhere == arbitrary(<<"ethBridge", "user">>, <<"requireToPassMessage", "requireToPassMessage">>)
otherCall == arbitrary(<<"ethBridge">>, <<"other">>)
uneven == arbitrary(<<"ethBridge">>, <<"requireToPassMessage", "requireToPassMessage">>)
multicall(s) == [call |-> "multicall", actions |-> s]
finalize(m) == [call |-> "finalizeMotion", motion |-> m]
tokenCall(c, a) == [call |-> c, to |-> a]

MCMotions == [v \in {"voting"} |->
  [m \in {"good", "bad", "nested", "token"} |->
    CASE m = "good" -> [altTarget |-> NoAddress, colony |-> "colony", action |-> plain]
      [] m = "bad" -> [altTarget |-> NoAddress, colony |-> "colony", action |-> multicall(<<plain, elsewhere>>)]
      [] m = "nested" -> [altTarget |-> "voting", colony |-> "colony", action |-> finalize("bad")]
      [] m = "token" -> [altTarget |-> "token", colony |-> "colony", action |-> tokenCall("transfer", "colony")]]]
MCNetworkCalls == <<[user |-> "user", deployed |-> <<"oldAuthority">>],
                    [user |-> "user", deployed |-> <<"oldAuthority", "authority">>],
                    [user |-> "other", deployed |-> <<"otherAuthority">>]>>

call(target, tx) == [EmptyBody EXCEPT !.payload = tx, !.target = target, !.user = "user"]
permit(spender) == [EmptyBody EXCEPT !.deadline = TRUE, !.target = "token", !.spender = spender]
by(user, b) == [b EXCEPT !.user = user]
beside(spender, b) == [b EXCEPT !.spender = spender]

AllBodies == {
  EmptyBody, [permit("network") EXCEPT !.target = NoAddress],
  permit("network"), permit("voting"), permit("user"),
  beside("network", call("user", plain)), beside("user", call("colony", plain)),
  by("newcomer", call("token", tokenCall("setAuthority", "authority"))),
  by("newcomer", call("colony", tokenCall("setAuthority", "authority"))),
  call("colony", plain), call("user", plain),
  call("colony", relayed), call("colony", elsewhere), call("colony", otherCall),
  call("colony", uneven),
  call("colony", multicall(<<plain, multicall(<<plain, elsewhere>>)>>)),
  call("colony", multicall(<<plain, relayed>>)),
  call("voting", finalize("good")), call("voting", finalize("bad")),
  call("voting", multicall(<<finalize("good"), finalize("nested")>>)),
  call("voting", finalize("token")), call("voting", finalize("none")),
  call("token", tokenCall("transfer", "colony")), call("token", tokenCall("approve", "user")),
  call("token", tokenCall("setAuthority", "authority")), call("token", tokenCall("setAuthority", "oldAuthority")),
  call("token", tokenCall("setAuthority", "otherAuthority")),
  call("token", tokenCall("setOwner", "colony")), call("token", plain)}
FewBodies == {call("colony", plain), call("token", tokenCall("transfer", "colony"))}

MCBodies == [t \in Transactions |-> IF t = "first" THEN AllBodies ELSE FewBodies]
MCNodeFees == {[max |-> 4, priority |-> 2], Unavailable}
MCOracleAnswers == {Unavailable, [slow |-> 10, average |-> 4], [slow |-> 0, average |-> 4]}
==============================================================================
