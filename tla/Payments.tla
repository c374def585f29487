------------------------------ MODULE Payments ------------------------------
(***************************************************************************)
(* How an execution moves value between accounts (crates/runtime:          *)
(* execution.rs): native transfers, the assets with their policies, and    *)
(* the transfers a contract queues.                                        *)
(*                                                                         *)
(* A transaction runs on a copy of its signer's account that is written    *)
(* back at the end.  x = [st, s, fee, tip, res] is the execution in        *)
(* progress: the ledger, that copy, what the miner is owed, and how it     *)
(* went ("ok", "failed": mined with a failed receipt, "reject": the block  *)
(* is invalid).  Amounts are far below u128 except token amounts, which    *)
(* overflow at MaxToken.                                                   *)
(***************************************************************************)
EXTENDS Ledger, Compliance

CONSTANTS
  ImplicitOf,          \* key -> the implicit account it certifies
  MaxToken, MaxPolicyEntries

-----------------------------------------------------------------------------
(* Native transfers and proposals. *)

IsImplicit(a) == a \in {ImplicitOf[k] : k \in DOMAIN ImplicitOf}

Credit(st, a, n) ==
  IF n = 0 THEN st ELSE SetAccount(st, a, [AccountOf(st, a) EXCEPT !.bal = @ + n])

ResolveRecipient(st, to) ==
  IF ~IsImplicit(to) /\ ResolveName(st, to) # Absent THEN ResolveName(st, to) ELSE to

\* Pay from the account copy acct of from; the caller commits the copy.
DoTransfer(st, from, acct, to, amount) ==
  LET dest == ResolveRecipient(st, to)
  IN IF acct.bal < amount THEN [st |-> st, acct |-> acct, res |-> "failed"]
     ELSE IF dest = from THEN [st |-> st, acct |-> acct, res |-> "ok"]
     ELSE [st   |-> SetAccount(st, dest, [AccountOf(st, dest) EXCEPT !.bal = @ + amount]),
           acct |-> [acct EXCEPT !.bal = @ - amount], res |-> "ok"]

Failed(x) == [x EXCEPT !.res = "failed"]
Reject(x) == [x EXCEPT !.res = "reject"]

DoPlainTransfer(x, tx, a) ==
  LET r == DoTransfer(x.st, tx.signer, x.s, a.to, a.amount)
  IN [x EXCEPT !.st = r.st, !.s = r.acct, !.res = r.res]

\* The stored transfer, run as the vault on the vault's ledger entry.
ExecuteProposal(x, account, a) ==
  LET r == DoTransfer(x.st, account, AccountOf(x.st, account), a.to, a.amount)
  IN [x EXCEPT !.st = SetAccount(r.st, account, r.acct), !.res = r.res]

\* y when every check of the handler passes, else a failed receipt: the
\* nonce is spent and the fee paid, and nothing else has moved.
Checked(ok, x, y) == IF ok THEN y ELSE Failed(x)

Pay(x, n)  == [x EXCEPT !.s.bal = @ - n]
Earn(x, n) == [x EXCEPT !.s.bal = @ + n]

-----------------------------------------------------------------------------
(* Native assets.  Every outgoing movement passes the asset's policy. *)

OutgoingAllowed(st, asset, from, to, amount, h) ==
  LET policy == TokenPolicy(st, asset)
  IN policy # Absent => /\ Permits(policy.control, from)
                        /\ TransferAllowed(policy, to, amount, h, TokenWindow(st, asset, from))

\* Persist the spend window of a movement that was allowed.
Meter(st, asset, from, amount, h) ==
  LET policy == TokenPolicy(st, asset)
  IN IF policy = Absent THEN st
     ELSE SetTokenWindow(st, asset, from, WindowAfter(policy, amount, h, TokenWindow(st, asset, from)))

MoveToken(st, asset, from, to, amount) ==
  LET debited == SetTokenBalance(st, asset, from, TokenBalance(st, asset, from) - amount)
  IN SetTokenBalance(debited, asset, to, TokenBalance(debited, asset, to) + amount)

Fits(n) == n <= MaxToken

TokenIssue(x, tx, a) ==
  LET asset == <<tx.signer, a.symbol>>
      info == GetOr(x.st.led.tokens, asset, [issuer |-> tx.signer, issued |-> 0, burned |-> 0])
      policy == TokenPolicy(x.st, asset)
      credited == TokenBalance(x.st, asset, a.to) + a.amount
  IN Checked(/\ a.symbol # "" /\ a.amount # 0 /\ asset # XUSD
             /\ policy # Absent => ~policy.frozen /\ Permits(policy.control, a.to)
             /\ Fits(info.issued + a.amount) /\ Fits(credited), x,
             [x EXCEPT !.st = SetTokenBalance(
                SetToken(@, asset, [info EXCEPT !.issued = @ + a.amount]), asset, a.to, credited)])

TokenTransfer(x, tx, a, h) ==
  LET to == ResolveRecipient(x.st, a.to)
  IN Checked(/\ Token(x.st, a.asset) # Absent
             /\ OutgoingAllowed(x.st, a.asset, tx.signer, to, a.amount, h)
             /\ TokenBalance(x.st, a.asset, tx.signer) >= a.amount
             /\ to # tx.signer => Fits(TokenBalance(x.st, a.asset, to) + a.amount), x,
             IF to = tx.signer THEN x
             ELSE [x EXCEPT !.st = Meter(MoveToken(@, a.asset, tx.signer, to, a.amount),
                                         a.asset, tx.signer, a.amount, h)])

\* Mutant: the burn is not recorded in the asset's counter.
TokenBurnUnrecorded(x, tx, a, h) ==
  LET held == TokenBalance(x.st, a.asset, tx.signer)
  IN Checked(/\ Token(x.st, a.asset) # Absent
             /\ OutgoingAllowed(x.st, a.asset, tx.signer, tx.signer, a.amount, h)
             /\ held >= a.amount, x,
             [x EXCEPT !.st = Meter(SetTokenBalance(@, a.asset, tx.signer, held - a.amount),
                                    a.asset, tx.signer, a.amount, h)])


TokenBurn(x, tx, a, h) ==
  LET held == TokenBalance(x.st, a.asset, tx.signer)
      info == Token(x.st, a.asset)
  IN Checked(/\ info # Absent
             /\ OutgoingAllowed(x.st, a.asset, tx.signer, tx.signer, a.amount, h)
             /\ held >= a.amount /\ Fits(info.burned + a.amount), x,
             [x EXCEPT !.st =
                Meter(SetTokenBalance(SetToken(@, a.asset, [info EXCEPT !.burned = @ + a.amount]),
                                      a.asset, tx.signer, held - a.amount),
                      a.asset, tx.signer, a.amount, h)])

PolicyEntries(policy) == IF policy.control.kind = "any" THEN 0 ELSE Cardinality(policy.control.list)

TokenSetPolicy(x, tx, a) ==
  Checked(/\ Token(x.st, a.asset) # Absent
          /\ Token(x.st, a.asset).issuer = tx.signer
          /\ PolicyEntries(a.policy) <= MaxPolicyEntries, x,
          [x EXCEPT !.st = SetTokenPolicy(@, a.asset, a.policy)])

-----------------------------------------------------------------------------
(* The transfers a contract queues. *)

\* The batch is checked command by command over what the earlier ones left;
\* it is Absent as soon as one is not sound.
ContractTransfer(st, contract, cmd, h) ==
  IF /\ st # Absent
     /\ Token(st, cmd.asset) # Absent
     /\ OutgoingAllowed(st, cmd.asset, contract, cmd.to, cmd.amount, h)
     /\ TokenBalance(st, cmd.asset, contract) >= cmd.amount
     /\ cmd.to # contract => Fits(TokenBalance(st, cmd.asset, cmd.to) + cmd.amount)
  THEN Meter(MoveToken(st, cmd.asset, contract, cmd.to, cmd.amount), cmd.asset, contract, cmd.amount, h)
  ELSE Absent

SettleContractTransfers(st, contract, cmds, h) ==
  LET settled[n \in 0..Len(cmds)] ==
        IF n = 0 THEN st ELSE ContractTransfer(settled[n - 1], contract, cmds[n], h)
  IN settled[Len(cmds)]
=============================================================================
