----------------------------- MODULE MCExchange -----------------------------
EXTENDS Exchange

MCRpcServiceName == <<82>>
MCEchoName == <<69>>
MCMasterKey == <<77, 255, 0>>
MCSessionKeys == {<<0, 255>>, <<200, 7>>}

Message(n) == [i \in 1 .. n |-> (i * 85) % 256]

Call(service, method, type, message) ==
    [service |-> service, method |-> method, type |-> type, message |-> message]

Echo(n) == Call(MCRpcServiceName, MCEchoName, "object", Message(n))

\* All remainders of the lengths by 3; messages whose response just fits into the
\* buffer, whose request does, and whose request does not; and every way for a
\* call to be refused.
MCCalls ==
    {Echo(n) : n \in {0, 1, 2, 3, 259, 261, 265}} \cup
    {Call(MCRpcServiceName, MCEchoName, "array", <<>>),
     Call(MCRpcServiceName, MCEchoName, "protobuf", <<255>>),
     Call(MCRpcServiceName, MCEchoName, "mismatch", <<>>),
     Call(MCRpcServiceName, <<69, 69>>, "object", <<0>>),
     Call(<<>>, MCEchoName, "object", <<0>>),
     Call(MCRpcServiceName, <<>>, "object", <<0>>),
     Call(<<0>>, MCEchoName, "object", <<0>>)}

=============================================================================
