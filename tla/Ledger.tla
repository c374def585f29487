------------------------------- MODULE Ledger -------------------------------
(***************************************************************************)
(* The world state (crates/state: ledger.rs, account.rs, vault.rs) as a    *)
(* value, and its setters.  Every map of the code is a function on the     *)
(* keys it holds, so "absent" and "present but default" stay apart.  A     *)
(* ledger under execution is [led, undo]: the maps, and the journal of     *)
(* pre-images the setters write while a block is being connected.          *)
(***************************************************************************)
EXTENDS Integers, Sequences, FiniteSets, Functions, Sums

CONSTANTS Account, Key, \* account identifiers, public keys
          Code,         \* contract code
          Action,       \* the actions, those that others carry included
          Absent,       \* what a lookup of a missing key returns
          XusdIssuer,   \* the keyless account xUSD is issued by
          RingLen       \* the anchors pool v2 remembers (ANCHOR_RING_LEN)

\* What is stored of an account, a vault and a collectible.
AccountRecord == [bal : Nat, nonce : Nat, locked : Nat, unlock : Nat,
                  key : Key \cup {Absent}, code : Code \cup {Absent}]
VaultRecord == [collateral : Nat, debt : Nat]
NftRecord == [owner : Account, meta : Account \cup {Absent}]

\* Absent is none of the values a lookup can find.
ASSUME LedgerAssumption ==
  /\ RingLen \in Nat \ {0}
  /\ Absent \notin Account \cup Action \cup AccountRecord \cup VaultRecord \cup NftRecord

\* Asset and collection identifiers are <<issuer, symbol>>: the hash that
\* derives them is injective on that pair.
Sov  == <<Absent, "SOV">>
XUSD == <<XusdIssuer, "xUSD">>
Sns  == <<Absent, "sns">>

NoAccount == [bal |-> 0, nonce |-> 0, locked |-> 0, unlock |-> 0, key |-> Absent, code |-> Absent]
NoWindow  == [start |-> 0, spent |-> 0]
NoVault   == [collateral |-> 0, debt |-> 0]
NoPool    == [spent |-> {}, notes |-> 0]

EmptyLedger ==
  [accounts |-> <<>>, storage |-> <<>>, tokens |-> <<>>, balances |-> <<>>,
   policies |-> <<>>, windows |-> <<>>, htlcs |-> <<>>, classes |-> <<>>,
   nfts |-> <<>>, multisig |-> <<>>, proposals |-> <<>>, intents |-> <<>>,
   vaults |-> <<>>,
   cells |-> [mined |-> 0, escrow |-> 0, collateral |-> 0, oracle |-> Absent,
              pool1 |-> NoPool, value1 |-> 0, drain1 |-> NoWindow,
              pool2 |-> NoPool, value2 |-> 0, drain2 |-> NoWindow]]

-----------------------------------------------------------------------------
(* Lookups and the one write every setter is made of. *)

Get(m, k) == IF k \in DOMAIN m THEN m[k] ELSE Absent
GetOr(m, k, d) == IF k \in DOMAIN m THEN m[k] ELSE d
Set(m, k, v) == IF v = Absent THEN Restrict(m, DOMAIN m \ {k})
                ELSE [x \in DOMAIN m \cup {k} |-> IF x = k THEN v ELSE m[x]]

\* Write one key, journalling its pre-image first.
Put(st, f, k, v) == [led  |-> [st.led EXCEPT ![f] = Set(@, k, v)],
                     undo |-> Append(st.undo, <<f, k, Get(st.led[f], k)>>)]

\* The members of a finite set in some order, as the code walks a map.
Listing(S) == CHOOSE s \in [1..Cardinality(S) -> S] : IsInjective(s)

\* Write every key of w, one journal entry each.
SetAll(m, w) == LET live == {k \in DOMAIN w : w[k] # Absent}
                IN [x \in (DOMAIN m \ DOMAIN w) \cup live |-> IF x \in live THEN w[x] ELSE m[x]]
PutAll(st, f, w) ==
  LET keys == Listing(DOMAIN w)
  IN [led  |-> [st.led EXCEPT ![f] = SetAll(@, w)],
      undo |-> st.undo \o [i \in 1..Len(keys) |-> <<f, keys[i], Get(st.led[f], keys[i])>>]]

\* The scalar fields and counters; the oracle price may be unset.
Cell(st, c) == st.led.cells[c]
PutCell(st, c, v) == [led  |-> [st.led EXCEPT !.cells[c] = v],
                      undo |-> Append(st.undo, <<"cells", c, st.led.cells[c]>>)]

\* A block is disconnected by restoring the pre-images, last write first.
UndoOne(op, led) == [led EXCEPT ![op[1]] = IF op[1] = "cells" THEN [@ EXCEPT ![op[2]] = op[3]]
                                                            ELSE Set(@, op[2], op[3])]
ApplyUndo(led, log) ==
  LET back[n \in 0..Len(log)] ==
        IF n = 0 THEN led ELSE UndoOne(log[Len(log) - n + 1], back[n - 1])
  IN back[Len(log)]

-----------------------------------------------------------------------------
(* Accounts, tokens and compliance windows.  A default value is removed,
   so that it commits like an absent one. *)

AccountOf(st, a) == GetOr(st.led.accounts, a, NoAccount)
Exists(st, a) == a \in DOMAIN st.led.accounts
SetAccount(st, a, acct) == Put(st, "accounts", a, IF acct = NoAccount THEN Absent ELSE acct)

Total(acct) == acct.bal + acct.locked

TokenBalance(st, asset, a) == GetOr(st.led.balances, <<asset, a>>, 0)
SetTokenBalance(st, asset, a, n) == Put(st, "balances", <<asset, a>>, IF n = 0 THEN Absent ELSE n)
Token(st, asset) == Get(st.led.tokens, asset)
SetToken(st, asset, info) == Put(st, "tokens", asset, info)

TokenPolicy(st, asset) == Get(st.led.policies, asset)
TokenWindow(st, asset, a) == GetOr(st.led.windows, <<asset, a>>, NoWindow)
SetTokenWindow(st, asset, a, w) ==
  Put(st, "windows", <<asset, a>>, IF w = NoWindow THEN Absent ELSE w)

\* Mutant: the windows are cleared without being journalled.
SetTokenPolicyUnjournalled(st, asset, policy) ==
  LET put == Put(st, "policies", asset, policy)
  IN [put EXCEPT !.led.windows = Restrict(@, {k \in DOMAIN @ : k[1] # asset})]

\* A new policy starts with fresh accounting: every window of the asset goes.
SetTokenPolicy(st, asset, policy) ==
  LET stale == {k \in DOMAIN st.led.windows : k[1] = asset}
  IN PutAll(Put(st, "policies", asset, policy), "windows", [k \in stale |-> Absent])

-----------------------------------------------------------------------------
(* Escrow, vaults, names and collections, multisig. *)

LockHtlc(st, id, h) ==
  Put(PutCell(st, "escrow", Cell(st, "escrow") + h.amount), "htlcs", id, h)

SettleHtlc(st, id) ==
  LET h == st.led.htlcs[id]
      left == Cell(st, "escrow") - h.amount
  IN Put(PutCell(st, "escrow", IF left < 0 THEN 0 ELSE left), "htlcs", id, Absent)

VaultOf(st, a) == GetOr(st.led.vaults, a, NoVault)
SetVault(st, a, v) ==
  Put(PutCell(st, "collateral", Cell(st, "collateral") - VaultOf(st, a).collateral + v.collateral),
      "vaults", a, IF v = NoVault THEN Absent ELSE v)

NftOwner(st, class, id) == IF <<class, id>> \in DOMAIN st.led.nfts
                           THEN st.led.nfts[<<class, id>>].owner ELSE Absent
MintNft(st, class, id, owner, meta) ==
  Put(st, "nfts", <<class, id>>, [owner |-> owner, meta |-> meta])
TransferNft(st, class, id, to) ==
  Put(st, "nfts", <<class, id>>, [st.led.nfts[<<class, id>>] EXCEPT !.owner = to])
SetNftMeta(st, class, id, meta) ==
  Put(st, "nfts", <<class, id>>, [st.led.nfts[<<class, id>>] EXCEPT !.meta = meta])

\* A name's metadata, when it names an account, is where the name resolves;
\* otherwise the name resolves to its owner.
ResolveName(st, name) ==
  LET nft == Get(st.led.nfts, <<Sns, name>>)
  IN IF nft = Absent THEN Absent ELSE IF nft.meta = Absent THEN nft.owner ELSE nft.meta

MultisigOf(st, a) == Get(st.led.multisig, a)
RemoveProposalsFor(st, a) ==
  LET stale == {id \in DOMAIN st.led.proposals : st.led.proposals[id].account = a}
  IN PutAll(st, "proposals", [id \in stale |-> Absent])

-----------------------------------------------------------------------------
(* The shielded pools: a set of spent nullifiers and a count of notes.  An
   anchor is the number of notes the tree held when it was taken; pool v1
   remembers every anchor, pool v2 the last RingLen. *)

AnchorKnown1(st, anchor) == anchor <= Cell(st, "pool1").notes
AnchorKnown2(st, anchor) ==
  /\ anchor <= Cell(st, "pool2").notes
  /\ anchor > Cell(st, "pool2").notes - RingLen
ApplyNotes(st, pool, spent, outs) ==
  PutCell(st, pool, [spent |-> Cell(st, pool).spent \cup spent, notes |-> Cell(st, pool).notes + outs])

-----------------------------------------------------------------------------
(* Supply accounting. *)

TotalSupply(led) ==
  SumOf([a \in DOMAIN led.accounts |-> Total(led.accounts[a])])
    + led.cells.value1 + led.cells.value2 + led.cells.escrow + led.cells.collateral
=============================================================================
