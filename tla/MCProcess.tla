------------------------------ MODULE MCProcess ------------------------------
EXTENDS Process

Proper == [env |-> "prod", jwtSecret |-> TRUE, origins |-> TRUE, cidrs |-> {"own"},
           password |-> "strong", mfa |-> TRUE, mfaSecret |-> TRUE, sessionSecret |-> TRUE,
           shortShutdown |-> FALSE]

Local == [Proper EXCEPT !.env = "local", !.jwtSecret = FALSE, !.origins = FALSE, !.cidrs = {"local"},
                        !.password = "short", !.mfa = FALSE, !.mfaSecret = FALSE,
                        !.sessionSecret = FALSE]

\* Two that production accepts but for one setting each, and three that start.
MCDeployments ==
  {Proper, Local, [Proper EXCEPT !.env = "dev", !.mfa = FALSE, !.shortShutdown = TRUE],
   [Proper EXCEPT !.mfa = FALSE], [Proper EXCEPT !.cidrs = {"own", "broad"}]}

MCAddresses == {"office", "stranger", "proxy", "balancer"}
MCTrusted == {"proxy", "balancer"}

\* One hop of each kind, and the pairs whose order or kind matters.
MCChains ==
  {<< >>, <<"office">>, <<"garbage">>, <<"proxy">>, <<"office", "stranger">>, <<"stranger", "office">>,
   <<"office", "proxy">>, <<"garbage", "proxy">>}
MCRequests == [chain : MCChains, direct : {"stranger", "balancer"}]
===============================================================================
