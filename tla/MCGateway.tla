------------------------------- MODULE MCGateway -------------------------------
(* Gateway for TLC: what clients ask, and the generator lists of the node. *)
EXTENDS Gateway, TLC

\* Pairs of parameters that share a key are among them, and those of which a range loses.
MCListClients ==
    [endpoint : {"blocks"}, field : {"height", "timestamp"},
     given : {{}, {"timestamp"}, {"height", "generatorAddress"}, {"blockID"}}]
    \cup [endpoint : {"transactions"}, field : {"height"},
          given : {{"height", "address"}, {"blockID", "timestamp"}, {"transactionID"}, {"senderAddress", "nonce"}}]
    \cup [endpoint : {"account"}, field : {"totalBalance"}, given : {{}, {"address"}, {"name"}}]
    \cup [endpoint : {"events"}, field : {"height"},
          given : {{"height", "senderAddress"}, {"timestamp", "blockID"}, {"transactionID", "blockID"}}]

MCValidatorClients ==
    [endpoint : {"validators"}, field : {"rank", "nextAllocatedTime"},
     given : {{}, {"name", "status"}, {"address"}, {"publicKey", "name"}}]
    \cup [endpoint : {"generators"}, field : {"none"}, given : {{}, {"search"}}]

MCGeneratorLists == {<<1, 2, 3>>, <<3, 4>>}

MCRequestClients ==
    [endpoint : {"claimable", "locked", "exists"}, given : {{}, {"address"}, {"publicKey", "name"}}]
    \cup [endpoint : {"stakes", "stakers", "info"}, given : {{}, {"address"}}]
    \cup [endpoint : {"balances", "invoke", "counts", "health"}, given : {{}}]
=============================================================================
