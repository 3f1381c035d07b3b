# TLA+ models of the coliving Solana authorization programs

This directory holds TLA+ modules and TLC configurations for the Solana programs under
`src/solana-programs/`. It also records which parts are modelled, what each check shows,
and what is planned.

## The system

Three program families gate state changes behind Ethereum (secp256k1) signatures rather than
Solana keys. They share one attestation core:

1. **Precompile locator.** The authorizing instruction reads the instructions sysvar. It takes
   its own index, requires it to be non-zero, and loads the instruction just before it. That
   instruction must belong to the `secp256k1` precompile.
2. **Offset/binding validator.** The companion's data starts with a count byte, followed by an
   11-byte `SecpSignatureOffsets` record.
   - The count must be 1.
   - All three "instruction index" fields must equal the companion's own position.
   - The three offsets must be the constants 12, 32 and 97.
   - The address and message are then read from the companion's own data.
   The runtime verifies every precompile instruction of the transaction before any program
   runs. It reads the address, signature and message from the instructions that the index
   fields name. So the index check is what binds the precompile's verification to the bytes
   the program reads. The registry's test `validate_signature_index_exploit` builds the attack
   that the check defeats.
3. **Evaluator.**
   - Single-signer (claimable-tokens): the recovered address must be the expected one. The
     decoded `TransferInstructionData` must name the destination account.
   - Three-of-N (registry, reward-manager): three distinct valid signers, and each message is
     bound to the group and operation.
4. **Replay guard.** A per-Ethereum-address `NonceAccount` at a PDA, created lazily when it has
   no lamports. The signed nonce must equal the stored one, which is then incremented.
5. **Record store.** Signer groups, valid signers and reward senders, created or cleared by an
   owner or by an attested public path.

The transaction is atomic: every instruction of it succeeds, or nothing changes. Transactions
that write the same account are serialised by the runtime. So each transaction is one atomic
step in the models, and a failing transaction is a step that is not enabled.

### Code under `src/`

| Part | Source | In this project |
|---|---|---|
| claimable-tokens processor | `claimable-tokens/program/src/processor.rs` | `ClaimableTokens`, `ReplayGuard`, `SecpOffsets`, `SecpBinding`, `SecpMessageSize` |
| registry instruction builders and tests | `coliving_eth_registry/src/instruction.rs`, `tests/tests.rs` | `EthRegistry`, refining `RegistryMembership` (checks from the spec and the tests: the processor is not in the repository); the exploit test shapes `SecpBinding`; `new_secp256k1_instruction_2_0` is `CanonicalCompanion` |
| reward-manager sender registry | `reward-manager/program/src/instruction.rs`, `tests/*.rs` | `RewardManager` (checks from the spec and the tests: the processor is not in the repository) |
| reward-manager attestations (SubmitAttestations, EvaluateAttestations) | `reward-manager/program/src/instruction.rs` | `RewardAttestations` (checks from the spec; the bot oracle is left out) |
| listen-count programs | `agreement_listen_count`, `track_listen_count` | not modelled: only types and errors |
| cli | `cli/src/main.rs` | `RegistryCli`: the four commands that write accounts, composed with `EthRegistry` |

## Modules

- **`SecpOffsets`** has no variables. It provides operators shared by the other modules.
  - A companion instruction is a record. It holds the count, the three index fields, the three
    offsets abstracted to `Fixed` (the required constant) or `Moved` (any other value), and
    the address and message stored at the fixed offsets.
  - `PrecompileVerifies(tx, Known)` is the runtime's precompile check. For each secp
    instruction with count 1, the (address, message) pair read through its index fields and
    offsets must carry a signature the submitter knows.
    - A moved offset lets the submitter place any bytes there.
    - An index beyond the transaction fails.
    - An index naming a non-secp instruction reads bytes the submitter controls.
  - Operators for processor.rs lines 297–337 and 396–452:
    - `CurrentIndex`, `LocateCompanion` and `Companion` model the locator;
    - `AsU8` models the `as u8` cast;
    - `ValidateEthSignature` and `CheckEthereumSign` model the validator and evaluator.
- **`SecpBinding`** (with `MCSecpBinding`) is the adversarial transaction builder. An attacker
  appends up to `MaxCompanions` instructions with any field values, then submits the
  transaction to a Transfer for the victim. The attacker knows the victim's published
  signatures and can sign anything with its own key.
- **`ReplayGuard`** is the abstract specification of claimable-tokens (spec §4.4). Its state:
  - banks;
  - destination balances;
  - the set of signed orders;
  - `paid[e]`, the sequence of orders paid for `e`.

  `Pay` pays only a signed order, never one already paid, and only at the nonce
  `Len(paid[e])`.
- **`ClaimableTokens`** models the processor. Its state:
  - `bank[e]`: `NoAccount`, `Occupied` (lamports but no data), or a token balance;
  - `nonceAcct[e]`: `NoAccount`, `Occupied`, or the stored nonce;
  - `destBal` and `signed`;
  - the ghost history `paid`.

  Its actions:
  - `CreateTokenAccount` models `process_init_instruction`: `CreateAccountWithSeed`
    (refused once the bank address holds lamports), then `InitializeTokenAccount`.
  - `TransferTx` models `process_transfer_instruction`. It composes four steps:
    - the precompile check;
    - `CheckEthereumSign` from `SecpOffsets`;
    - `NonceAccountStep` (lines 339–389);
    - `TokenTransfer` (lines 258–294).
  - The environment actions are:
    - `Sign`: a user signs an order at the nonce read, or a later one;
    - `Fund`;
    - `OccupyBank` and `OccupyNonce`: lamports sent to a PDA before it is created.

  Submitted transactions are those a client or attacker can build:
  - the canonical companion for any known signature (including the attacker's);
  - an empty transaction;
  - one whose previous instruction is of another program.

  `SecpBinding` covers hand-built offsets.
  `Abstract == INSTANCE ReplayGuard WITH ...` maps the program state onto the abstract spec.
  The nonce accounts are hidden.

- **`RewardManager`** models the reward-manager sender registry. Its processor is not in the
  repository, so the checks come from spec §4.3/§4.5 and from the tests in
  `tests/create_sender_public.rs`.
  - State:
    - `manager`;
    - `senders[k]`: the operator of the sender PDA for Ethereum address `k`, or `NoSender`;
    - `signed`: every attestation ever signed; once submitted it is public and can be relayed
      again.
  - Ghost variables, used only by the properties:
    - `createdWith[k]` and `createdOps[k]`: the attesting keys of `k`'s public creation, and
      their operators at the time;
    - `freshAdd[k]`: keys that approved adding `k` since `k` was last deleted;
    - a deletion counter bounded by `MaxDeletes`.
  - Actions:
    - InitRewardManager and ChangeManagerAccount;
    - CreateSender and DeleteSender, which the manager signs;
    - CreateSenderPublic and DeleteSenderPublic, with the checks in order:
      - attested by existing senders;
      - `NotEnoughSigners`;
      - `RepeatedSenders`;
      - `OperatorCollision`;
    - `Attest`: an honest sender approves the addition of a non-sender or the deletion of a
      sender.
  - The message is `Message(tag, k)`. The tests sign
    `ADD_SENDER_MESSAGE_PREFIX ++ manager ++ eth_address`, which holds no operator and no nonce.

- **`EthRegistry`** models the signer-group registry. Its processor is not in the repository:
  the accounts and required signers of each instruction come from the builders in
  `src/instruction.rs`; the checks come from spec §3/§4.3/§4.5 and from `tests/tests.rs`.
  - State: `group[g]` (`NoGroup` or owner and `owner_enabled` latch); `signer[a]` (`Uninit`,
    `Cleared`, or group and Ethereum address); `signed`, the (key, message) pairs signed.
  - Ghost variables: `approved`, the operation each key meant to approve, and `done`, each
    multi-signature operation performed with the keys it used.
  - Actions: the six state-changing instructions. InitSignerGroup needs no signature from
    the owner it names (the builder marks it non-signer). The owner-gated ones require the
    named owner and the latch on. ValidateMultipleSignatures{AddSigner,ClearValidSigner} take
    three pairwise distinct valid signers of the group, each having signed the message.
  - `Attest`: a valid signer's key approves adding an address no valid signer of the group has,
    or clearing one that some valid signer has, and signs `RegistryMessage` of it.
  - Accounts come to exist by `CreateGroupAccount(g, o)` and `CreateSignerAccount(a)`: a
    system `create_account` in a transaction of its own, as the tests' `setup` and
    `create_account` do. The ghost `creator[g]` records the owner meant by whoever created g.
  - `ProgramNext` is every instruction and the environment, but for how group accounts are
    created; `Next` adds `CreateGroupAccount`.
  - `RegistryMessage(tag, g, e)` is the canonical message of spec §4.3. `TimestampMessage`
    is what the tests sign: `Utc::now().timestamp().to_le_bytes()`, shared by all three
    signers and naming no operation.
  - `MembershipRefined` instantiates `RegistryMembership` with a refinement mapping: a
    group's owner and latch are its account's data, a member slot is a valid-signer account
    holding a valid record, and a retired slot is a cleared account.

- **`RegistryMembership`** is what the registry promises, with no accounts, signatures or
  instructions. A group is founded once with an owner. Its members change only by the owner
  while the latch is on, or by an operation approved, as that operation, by the keys of three
  distinct members of the group. The latch only closes, and only by the owner, and a
  removed slot is never filled again. The variable `actor` is the owner that signed the last
  change; `EthRegistry` maps it from a ghost of the same name set by each owner-signed
  instruction, so a step by another key, or after the latch closed, does not refine.

- **`RegistryCli`** composes the CLI (`cli/src/main.rs`) with `EthRegistry`. Each command
  is one transaction:
  - `create-signer-group` puts `create_account` and `InitSignerGroup` in one transaction
    (`CliCreateSignerGroup`);
  - `create-valid-signer` does the same for a valid signer, signed by the configured owner;
  - `disable-signer-group-owner`, and `clear-valid-signer`, which reads the signer's group
    from the account first.
  `CliNext` is `ProgramNext` plus these commands: group accounts are created only by the CLI,
  and anyone may still send any instruction. The query commands only read, and
  `send-message` sends ValidateSignature, which writes no account.
- **`RewardAttestations`** extends `RewardManager` with reward transfers.
  - State: `tsigned`, the transfer attestations signed; `verified[id]`, the entries of the
    verified-messages PDA of `id` (sender, its operator then, id, payment); `transferred[id]`,
    whether the transfer PDA of `id` exists; the ghost `payments`.
  - `SubmitAttestations(id, s, c)` appends sender `s`'s attestation of payment `c`.
    `EvaluateAttestations(id, c)` requires the transfer PDA to be new and `MinVotes` matching
    entries of distinct senders and operators, then pays and creates the PDA.
  - `AttestTransfer`: a sender's key attests the payment the backend means by `id`.
  - The sender-registry actions run alongside, leaving the new variables unchanged.

- **`SecpMessageSize`** models the companion's message bytes, one element per encoded field
  of `TransferInstructionData` (32-byte target, 8-byte amount, 8-byte nonce).
  - `Encode` is the borsh serialization, in the field order `FieldOrder` (target, amount,
    nonce). `Decodes`/`Decode` are `try_from_slice` (lines 442–445): exactly the three
    fields, nothing missing or left over, or `unwrap` aborts.
  - `PrecompileVerifiesPrefix(data, size)`: the precompile checks the signature over the first
    `message_data_size` elements only. `Transfer(d, data, size)` is validate_eth_signature
    with the offsets and indices canonical (SecpBinding covers those), then the nonce check,
    then token_transfer's `FundsSufficient` (lines 274–277: a zero amount, or one above the
    bank balance, is refused) and the debit of the bank.
  - `SignOrder` and `SignForeign` are the user's key signing a transfer order, or a
    message of another protocol (`Foreign`).

## Runs

| Run | Checks | Result |
|---|---|---|
| `secp_binding` | `BindingSound`: an accepted Transfer's message was signed by the victim. | passes. All layouts of up to 2 instructions; about 527k states. |
| `claimable_tokens` | `TypeOK`; `ReplayGuardRefined`: the program implements `ReplayGuard`. | passes. 2 users, 2 destinations, nonces up to 2; about 37k states, about 70 s. |
| `claim_nonce_griefing` | `ClaimAlwaysPossible`: a funded user can always claim. | **violated**: CreateTokenAccount, Fund, then lamports sent to the nonce PDA. |
| `bank_griefing` | `BankAlwaysCreatable`: a missing bank can always be created. | **violated**: lamports sent to the bank PDA. |
| `reward_senders` | `TypeOK`: the registry stays well formed; in particular the operators recorded for the attesters of a created sender are real operators, which fails if an account that is not a sender can attest. | passes. 3 keys, 3 operators, 2 managers, `MinVotes = 2`, one deletion, with symmetry; about 16k states. |
| `reward_sender_replay` | `NoResurrection`: a sender re-created by attestation was approved again after its deletion. | **violated** in 8 steps (see below). |
| `registry` | `MembershipRefined`: the registry implements `RegistryMembership`. It fails if an owner-signed instruction is accepted after DisableSignerGroupOwner or from a key other than the group's owner, if a group is initialized twice, if a cleared account is reused, or if a multi-signature step is accepted without three approvals of that operation. | passes. 1 group, 2 owners, 4 accounts, 4 addresses, 3 attestations, with symmetry; about 21k states. |
| `registry_frontrun` | `GroupOwnedByCreator`: an initialized group is owned by the owner its creator meant. Test-style creation. | **violated** in 2 steps: `CreateGroupAccount(g1, o1)`, then `InitSignerGroup(g1, o2)` by someone else. |
| `registry_cli` | `MembershipRefined`, with group and signer accounts created only by the CLI. | passes. Same bounds as `registry`; about 10.7k states. |
| `reward_transfers` | `PaidAsAttested`: a payment was attested as that payment by `MinVotes` distinct keys. | passes. 3 keys, 3 operators, 1 id, 1 recipient, amounts {1, 2}, `MinVotes = 2`, up to 4 verified messages, up to 2 deletions, senders managed by the manager only (constraint `ManagerSendersOnly`); about 17k states. |
| `secp_message_prefix` | `PaidOnlySignedOrders`: every paid order was signed by the user as that whole order. The user's key has also signed one 32-byte message, its destination key. | **violated** in 2 steps: that message as a prefix of `(d1, 1, 0)` with `message_data_size` = 32 bytes. |
| `registry_timestamp` | `AttestedIntent` with `RegistryMessage <- TimestampMessage`, under the constraint that valid signers hold distinct addresses. | **violated**: three keys approve adding e4; their timestamp signatures add e1 instead. |

**Findings.** Both violations are denial-of-service bugs of the program. No funds are lost.

- **Nonce account** (processor.rs 358, 377). The program treats "has lamports" as "exists".
  After a pre-funding transfer, `NonceAccount::unpack` fails on empty data, so every later
  Transfer of that user fails.
- **Bank account** (processor.rs 203). `create_account_with_seed` fails on a funded address.

**Unchecked message size** (processor.rs 443). `validate_eth_signature` checks the three
offsets but never `message_data_size`. The precompile verifies only that many bytes, and the
program decodes all bytes from offset 97. A signature by the user's Ethereum key over any proper
prefix of an encoded order authorizes an order that begins with those bytes. The bytes after
the prefix (the amount, and the nonce, set to the current one) are the submitter's choice,
within what token_transfer allows: any non-zero amount up to the bank balance. In the run
the order pays 1 of a balance of 2.
Such a signature may come from any other protocol that uses the key: in the run, it is a
signature over the user's 32-byte destination key.

**Reward-manager replay.** This one is a gap in the specification as much as in the code.
1. The manager creates senders k1 and k2.
2. k1 approves adding k3.
3. The manager creates k3 itself, then deletes it.
4. k2 approves adding k3.
5. A relayer submits k1's old approval together with k2's new one, and k3 is re-created.

k1 never approved the re-creation. The signed bytes carry nothing that changes between the
two approvals.

**Registry group front-running** (instruction.rs 83). `init_signer_group` passes the owner
as a non-signing account. The tests create the group account in one transaction and initialize
it in the next, and anyone can initialize it in between with an owner of their own. The CLI
creates and initializes in one transaction, and `registry_cli` shows that this is safe. This is
a gap in the specification: it says only that a group is created once.

**Registry timestamp message** (tests.rs 995). `validate_3_signatures_add_new_valid_signer`
succeeds with signatures over the current timestamp only. The new address is generated after
signing, so it is in no signed message. Spec §4.3 requires the canonical (tag, group, target)
message. With the tested message, a quorum gathered for one operation authorizes any other,
including a clear of one of the signers. This is a divergence between the spec and the behaviour
the tests accept.

**Bounds.**
- `MaxCompanions = 2` is the smallest bound that has the index-confusion attack: a dummy
  instruction plus a companion that points at it. The exploit test uses three instructions,
  because there the companion is not last.
- Two users and two destinations let an order be redirected, and let one user's signature be
  used for another.
- **RewardManager.**
  - `MinVotes = 2` with 3 keys is the smallest quorum where the attesters and the new sender
    are all distinct; 3 operators let that quorum succeed.
  - One deletion is enough for the replay.
  - Keys, operators and managers appear in no definition by name, so symmetry over them is
    sound.
  - `SignerSeqs` enumerates up to `MinVotes` signer accounts. No `MinVotes + 1` distinct
    senders can attest a third key here.
- **EthRegistry.** Four accounts and four addresses are the fewest with three valid signers
  and a fourth account or address to add or clear. Two owners let a wrong owner sign, and
  let a re-initialization change the owner. `MaxApprovals = 3` is one quorum's attestations:
  enough for any single multi-signature operation, for replaying it, and for misusing it for
  another operation; `MaxApprovals = 4` takes over two minutes.
- **RewardAttestations.** `MinVotes = 2` of 3 keys with 3 operators lets a quorum form and
  lets one sender submit twice. Four verified messages allow a duplicate and a re-created
  sender's second entry next to a quorum. Two deletions let a sender be deleted and
  re-created with another operator between its submissions, and then deleted again. Two
  amounts let a relayer evaluate a payment other than the attested one. One id is enough
  since ids do not interact.
  - The state constraint `ManagerSendersOnly` (in `MCRewardAttestations`) keeps the sender
    registry to the manager's CreateSender and DeleteSender. With the attested sender
    instructions too, one deletion takes over ten minutes. EvaluateAttestations reads a
    sender only through `senders[s]`, and the manager can give that any value the public
    path can, so nothing the transfer properties depend on is left out. The public path is
    checked in `reward_senders`. TLC still checks the invariants in the first state outside
    the constraint.
- **SecpMessageSize.** One destination, amounts {0, 1, 2}, a bank balance of 2 (so a zero
  amount and an amount above the remaining balance are both tried), `MaxNonce = 2`, and one foreign
  message. Every data string of up to three fields and every size up to its length are
  enumerated, so every prefix the precompile could check is tried.
- `MaxNonce = 2` lets orders be signed ahead and submitted out of order.
- A single amount and a single token are enough: amounts do not interact with the replay
  guard beyond the `amount > balance` guard, which `MaxBalance = 1` exercises.

**Deadlock.** `reward_senders` checks deadlock. `registry` and `registry_cli` set `CHECK_DEADLOCK FALSE`: a
group whose owner is disabled and that has fewer than three valid signers can never change
again, in the program as in the model. The other runs set `CHECK_DEADLOCK FALSE`. Terminal states are exactly the states where
the named bounds (nonces, balances, instruction count) are used up. The program itself never
waits.

**Fairness.** None is assumed. Transactions are submitted by external clients, and nothing in
the code makes them be submitted. The liveness-like questions ("can the user still claim?")
are therefore stated as invariants over `ENABLED`.

**Mutants.** Each property of a passing run is broken by a plausible bug in the definition it
rests on:
- `BindingSound`: the validator trusting the index fields.
- `ReplayGuardRefined`: accepting `nonce >= current`.
- `TypeOK`: dropping the `amount > balance` check.
- `TypeOK` (`reward_senders`): attestation not requiring each signer account to be a sender.
- `MembershipRefined` (`registry`): owner-signed instructions not checking the
  `owner_enabled` latch. Dropping the owner check, InitSignerGroup's already-initialized
  check, the target in the registry message, or checking only the `is_valid` flag before
  InitValidSigner, each breaks it too.
- `MembershipRefined` (`registry_cli`): create-valid-signer initializing an existing account
  in place instead of creating it.
- `PaidAsAttested`: requiring distinct operators but not distinct senders. This holds
  while a sender keeps one operator. It breaks in 9 steps once the sender is deleted and
  re-created with another operator, and submits its attestation again.

## Not modelled, and why

- **ValidateSignature** and `validate_signature_with_sysvar` write no account. The second
  takes the instructions-sysvar account from the caller. Whether the processor checks that
  account's key is not in the repository, and the specification does not say. The models
  read the real sysvar.
- **Listen counts.** `agreement_listen_count` has only an instruction type, its builder and
  its errors, and all the builder's accounts are read-only. `track_listen_count` has only a
  data type. The repository has no processor for either, and the specification does not
  mention them.
- **Reuse of a cleared signer account.** The processor is not in the repository. The
  tests (tests.rs 573) show a cleared account reads as `is_initialized() == false`. If
  InitValidSigner checked only that flag, a cleared account could be initialized again,
  which the specification (§3) forbids; the model refuses it, and `MembershipRefined`
  fails if it does not. Whether the processor agrees cannot be checked here.
- **Double payment of an id.** Only the creation of the transfer PDA of an id
  (instruction.rs 433) stops a retried EvaluateAttestations from paying twice. The model has
  that guard; no separate property restates it.
- **Stale sender attestations in EvaluateAttestations.** The specification does not say
  whether a verified attestation still counts after its sender is deleted. The model counts
  it. `PaidAsAttested` holds either way, so no property decides the question.
- **Panics** (`unwrap` at line 445, indexing empty data at 403). These abort the transaction
  exactly as an error does, so they are the same as a disabled step.
- **u64 nonce overflow and the `as u8` index cast beyond 255.** Both are unreachable: a
  transaction cannot hold 256 instructions, and a nonce cannot reach 2^64.
- **Rent, PDA derivation and account-key checks** (lines 193–198, 269–272, 346–351). Wrong
  accounts make the transaction fail. The model names accounts by their owner.

## Plan for later work

1. **Stale sender attestations**, once the intended rule is known. The specification does
   not say whether a deleted sender's verified attestation still counts.
2. **Liveness**: none is stated. Every step is a client transaction, and the code gives no
   fairness to any of them. A liveness check would be an assumption about clients that
   retry, such as "a quorum-attested id is eventually paid".
