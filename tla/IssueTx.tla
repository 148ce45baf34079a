------------------------------ MODULE IssueTx ------------------------------
(* token_stub.go, token_tx.go: issuing a token, minting and burning.  Several *)
(* holders of the genesis account act by a contract, a single one at once.    *)
EXTENDS HolderTx, TokenTx

NotIssued ==
  [genesis |-> NoAddr, supply |-> 0, max |-> 0, policy |-> NoPolicy, wrap |-> NoBridge]

Issued == token.genesis # NoAddr

Holders == account[token.genesis].holders

(* The token's own chaincode tells what to issue, getValidatedTokenMeta       *)
(* refuses an initial supply above the maximum.                               *)
TokenIssue == [max : Nat, supply : Nat, policy : SUBSET MetaPolicy, wrap : SUBSET WrapBridge]

PolicyAsGiven(issue, genesis) ==   \* mutation of FirstPolicy: no default target
  IF issue.policy = {} THEN {NoPolicy}
  ELSE {[installed |-> TRUE, rates |-> p.rates, target |-> p.target] : p \in issue.policy}

FirstPolicy(issue, genesis) ==
  IF issue.policy = {} THEN {NoPolicy}
  ELSE {[installed |-> TRUE, rates |-> p.rates,
         target |-> IF p.target = NoAddr THEN genesis ELSE p.target] :
          p \in {q \in issue.policy : q.target = NoAddr \/ AccountExists(q.target)}}

FirstBridge(issue) ==
  IF issue.wrap = {} THEN {NoBridge}
  ELSE {w \in issue.wrap : \A e \in ExtCode : w[e] = NoAddr \/ AccountExists(w[e])}

(* CreateToken: a new joint account, the genesis account, gets the initial    *)
(* supply.                                                                    *)
CreateToken(kids, issue, ts) ==
  /\ issue.supply <= issue.max
  /\ \E genesis \in Joint, wrap \in FirstBridge(issue) : \E policy \in FirstPolicy(issue, genesis) :
       /\ CreateAccount(genesis, kids, issue.supply)
       /\ PutBalanceLogs(IF issue.supply > 0 THEN {Log(genesis, ts, issue.supply, 0)} ELSE {})
       /\ token' = [genesis |-> genesis, supply |-> issue.supply, max |-> issue.max,
                    policy |-> policy, wrap |-> wrap]
  /\ UNCHANGED pending

MintPastMax(amount, ts) ==   \* mutation of Mint
  /\ token.supply < token.max
  /\ token' = [token EXCEPT !.supply = @ + amount]
  /\ Supply(token.genesis, amount, ts)
  /\ UNCHANGED <<account, relations>>

MintAmount(amount, ts) ==   \* mutation of Mint: the amount is not cut with the supply
  /\ token.supply < token.max
  /\ token' = [token EXCEPT !.supply = IF @ + amount > token.max THEN token.max ELSE @ + amount]
  /\ Supply(token.genesis, amount, ts)
  /\ UNCHANGED <<account, relations>>

(* Mint: as much of the amount as the maximum allows.                         *)
Mint(amount, ts) ==
  LET supply == IF token.supply + amount > token.max THEN token.max ELSE token.supply + amount
  IN /\ token.supply < token.max
     /\ token' = [token EXCEPT !.supply = supply]
     /\ Supply(token.genesis, supply - token.supply, ts)
     /\ UNCHANGED <<account, relations>>

BurnAmount(amount, ts) ==   \* mutation of Burn
  /\ token.supply # 0
  /\ token' = [token EXCEPT !.supply = @ - amount]
  /\ Supply(token.genesis, -amount, ts)
  /\ UNCHANGED <<account, relations>>

(* Burn: as much of the amount as the genesis account has, maybe nothing.     *)
Burn(amount, ts) ==
  LET real == IF bal[token.genesis] < amount THEN bal[token.genesis] ELSE amount
  IN /\ token.supply # 0
     /\ \/ /\ real <= 0
           /\ UNCHANGED <<token, balanceVars>>
        \/ /\ real > 0
           /\ token' = [token EXCEPT !.supply = @ - real]
           /\ Supply(token.genesis, -real, ts)
     /\ UNCHANGED <<account, relations>>

-----------------------------------------------------------------------------
(* The document of a contract: the holders or the amount it is about.         *)
TokenDoc(kids, amount) == [kids |-> kids, amount |-> amount]

ProposeTo(signers, type, doc) ==
  /\ UseTxID
  /\ CreateContract(nextTx, type, doc, 0, signers)
  /\ UNCHANGED <<token, account, balanceVars, relations>>

(* amount is what the token's chaincode makes of the amount asked for.        *)
tokenMint(kid, amount, ts) ==
  /\ Issued
  /\ token.supply < token.max
  /\ kid \in Holders
  /\ IF Cardinality(Holders) > 1
     THEN ProposeTo(Holders, "token/mint", TokenDoc({}, amount))
     ELSE Mint(amount, ts) /\ UNCHANGED <<nextTx, contracts>>

tokenBurn(kid, amount, ts) ==
  /\ Issued
  /\ kid \in Holders
  /\ bal[token.genesis] # 0
  /\ amount <= token.supply
  /\ IF Cardinality(Holders) > 1
     THEN ProposeTo(Holders, "token/burn", TokenDoc({}, amount))
     ELSE Burn(amount, ts) /\ UNCHANGED <<nextTx, contracts>>

tokenCreate(kid, addrs, issue, ts) ==
  LET kids == {kid} \cup SignableIDs(addrs)
  IN /\ ~Issued
     /\ \A a \in addrs : AccountExists(a)
     /\ issue.supply <= issue.max
     /\ IF Cardinality(kids) > 1
        THEN ProposeTo(kids, "token/create", TokenDoc(kids, 0))
        ELSE CreateToken(kids, issue, ts) /\ UNCHANGED <<nextTx, contracts>>

(* The execute callbacks.  They find the token as it is now.                  *)
executeTokenMint(c, ts) ==
  /\ c.type = "token/mint" /\ Issued
  /\ Mint(c.doc.amount, ts)
  /\ CloseContract(c, "executed") /\ UNCHANGED nextTx

executeTokenBurn(c, ts) ==
  /\ c.type = "token/burn" /\ Issued
  /\ Burn(c.doc.amount, ts)
  /\ CloseContract(c, "executed") /\ UNCHANGED nextTx

IssueAgain(c, issue, ts) ==   \* mutation of executeTokenCreate
  /\ c.type = "token/create"
  /\ CreateToken(c.doc.kids, issue, ts)
  /\ CloseContract(c, "executed") /\ UNCHANGED nextTx

executeTokenCreate(c, issue, ts) ==
  /\ c.type = "token/create" /\ ~Issued
  /\ CreateToken(c.doc.kids, issue, ts)
  /\ CloseContract(c, "executed") /\ UNCHANGED nextTx
=============================================================================
