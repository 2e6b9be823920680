---------------------------- MODULE WalletTools -----------------------------
(***************************************************************************)
(* From words to an account: wallet/mnemonic/bip39.py, hdwallet/           *)
(* hdwallet.py, derivation/path.py, account/account.py, recovery/          *)
(* recovery.py; and the tools that make wallets and find them again: the   *)
(* wallet commands of cli/piso_cli.py, the Python SDK                      *)
(* (sdk/python/piso_sdk/wallet.py), and the coin types they may be given   *)
(* (wallet/slip44/coin_type.py).  A wallet is created with one tool; what  *)
(* was printed, or something mistyped, is given to another.                *)
(*                                                                         *)
(* Digests are free: what is digested stands for its digest.  A phrase is  *)
(* [entropy, checksum, words, listed, spacing]: the bits its words stand   *)
(* for, their number, whether all are in the list, and what is between     *)
(* them ("single", or "double" somewhere).  A path is a sequence of        *)
(* [val, hard], or NotAPath; a key [seed, curve, indexes].                 *)
(***************************************************************************)
EXTENDS Integers, Sequences

CONSTANTS
    Entropy,            \* bound: what os.urandom returns
    Checksum,           \* external: entropy -> the first bits of its SHA-256
    HARDENED_OFFSET,    \* 0x80000000, scaled down
    Unusable            \* external: the <<key, index>> whose child is no key

Invalid == [error |-> "invalid"]
NotAPath == <<[val |-> 0, hard |-> "not a path"]>>

-----------------------------------------------------------------------------
(* BIP39Mnemonic *)

ALLOWED_WORDS == {12, 18, 24}

entropy_to_mnemonic(entropy, words) ==
    [entropy |-> entropy, checksum |-> Checksum[entropy], words |-> words, listed |-> TRUE,
     spacing |-> "single"]

mnemonic_valid(phrase) ==
    /\ phrase.words \in ALLOWED_WORDS
    /\ phrase.listed
    /\ phrase.checksum = Checksum[phrase.entropy]

\* Mutant: the passphrase is not part of the salt.
seed_unsalted(phrase, passphrase) == <<phrase, "">>

\* The text itself is digested, with the spaces within it, and not its words.
to_seed(phrase, passphrase) == <<phrase, passphrase>>

-----------------------------------------------------------------------------
(* DerivationPath, HDNode *)

\* A number of 2^31 or more is hardened with or without its mark.
index_of(part) == IF part.hard = "marked" THEN part.val + HARDENED_OFFSET ELSE part.val

build_path(coin_type, account, address_index) ==
    <<[val |-> 44, hard |-> "marked"], [val |-> coin_type, hard |-> "marked"],
      [val |-> account, hard |-> "marked"], [val |-> 0, hard |-> "plain"],
      [val |-> address_index, hard |-> "plain"]>>

from_seed(seed, curve) == [seed |-> seed, curve |-> curve, indexes |-> << >>]

\* Four bytes hold an index; ed25519 has hardened children only.
Derivable(node, index) ==
    /\ index \in 0 .. 2 * HARDENED_OFFSET - 1
    /\ node.curve = "ed25519" => index >= HARDENED_OFFSET
    /\ <<node, index>> \notin Unusable

\* The node reached, or Invalid where a child on the way cannot be derived.
derive_path(master, path) ==
    LET indexes == [k \in 1 .. Len(path) |-> index_of(path[k])]
        node(k) == [master EXCEPT !.indexes = SubSeq(indexes, 1, k)]
    IN  IF path # NotAPath /\ \A k \in 1 .. Len(path) : Derivable(node(k - 1), indexes[k])
        THEN node(Len(path)) ELSE Invalid

\* An ed25519 account asks hashlib for a function it does not have.
from_hdnode(node) == IF node = Invalid \/ node.curve = "ed25519" THEN Invalid ELSE node

recover_from_path(phrase, passphrase, curve, path) ==
    IF ~mnemonic_valid(phrase) THEN Invalid
    ELSE from_hdnode(derive_path(from_seed(to_seed(phrase, passphrase), curve), path))

recover_from_mnemonic(phrase, passphrase, coin_type) ==
    recover_from_path(phrase, passphrase, "secp256k1", build_path(coin_type, 0, 0))

-----------------------------------------------------------------------------
(* The tools *)

CONSTANTS
    Passphrase,     \* bound: with "" among them
    CoinType,       \* bound: with DefaultCoin among them
    Path,           \* bound: the paths typed
    DefaultCoin     \* 2026

ASSUME DefaultsAreTyped == "" \in Passphrase /\ DefaultCoin \in CoinType

\* HARDENED_OFFSET is added where a part is marked.
ASSUME PathsAreParts ==
    /\ HARDENED_OFFSET \in Nat
    /\ CoinType \subseteq Int
    /\ Path \subseteq Seq([val : Int, hard : {"marked", "plain"}]) \cup {NotAPath}

VARIABLES
    made,       \* what create printed: [phrase, passphrase, coin_type, account]
    found,      \* what another tool was given and printed: [tool, phrase,
                \* passphrase, path, account]
    registry    \* CoinTypeRegistry: the symbol of each coin type, in order

toolVars == <<made, found, registry>>

NoAccount == [account |-> Invalid]
DefaultPath == build_path(DefaultCoin, 0, 0)

ToolsInit ==
    /\ made = NoAccount /\ found = NoAccount
    /\ registry = <<[coin_type |-> DefaultCoin, symbol |-> "PISO"]>>

\* A key that cannot be derived raises before anything is printed.
Create(words, passphrase, coin_type) ==
    /\ made = NoAccount
    /\ words \in ALLOWED_WORDS
    /\ \E entropy \in Entropy :
          LET phrase == entropy_to_mnemonic(entropy, words)
              account == recover_from_mnemonic(phrase, passphrase, coin_type)
          IN  made' = IF account = Invalid THEN NoAccount
                      ELSE [phrase |-> phrase, passphrase |-> passphrase,
                            coin_type |-> coin_type, account |-> account]
    /\ UNCHANGED <<found, registry>>

cmd_wallet_create ==
    \E words \in ALLOWED_WORDS, passphrase \in Passphrase, coin_type \in CoinType :
        Create(words, passphrase, coin_type)

\* SDKWallet.  An agent's name is the passphrase of its wallet.
generate_wallet ==
    \E words \in ALLOWED_WORDS, passphrase \in Passphrase : Create(words, passphrase, DefaultCoin)
ai_agent_wallet == \E agent_name \in Passphrase \ {""} : Create(12, agent_name, DefaultCoin)

Find(tool, phrase, passphrase, path, account) ==
    /\ found' = [tool |-> tool, phrase |-> phrase, passphrase |-> passphrase, path |-> path,
                 account |-> account]
    /\ UNCHANGED <<made, registry>>

\* The phrase as it was printed, spaced differently, or with a slip in a word.
Typed(phrase) ==
    {phrase, [phrase EXCEPT !.spacing = "double"], [phrase EXCEPT !.listed = FALSE],
     [phrase EXCEPT !.words = @ - 1]}
    \cup {[phrase EXCEPT !.entropy = e] : e \in Entropy}

cmd_wallet_recover(phrase) ==
    \E passphrase \in Passphrase, coin_type \in CoinType :
        Find("recover", phrase, passphrase, build_path(coin_type, 0, 0),
             recover_from_mnemonic(phrase, passphrase, coin_type))

\* It takes no passphrase.
cmd_wallet_derive(phrase) ==
    \E path \in Path :
        Find("derive", phrase, "", path, recover_from_path(phrase, "", "secp256k1", path))

recover_wallet(phrase) ==
    \E passphrase \in Passphrase :
        Find("recover_wallet", phrase, passphrase, DefaultPath,
             recover_from_mnemonic(phrase, passphrase, DefaultCoin))

\* Whatever path it is given, even one that cannot be read, it answers the first
\* account of the default coin.
derive_address(phrase) ==
    \E path \in Path :
        Find("derive_address", phrase, "", path, recover_from_mnemonic(phrase, "", DefaultCoin))

\* A type already registered keeps its place.
register(coin_type, symbol) ==
    /\ registry' = IF \E k \in 1 .. Len(registry) : registry[k].coin_type = coin_type
                   THEN [k \in 1 .. Len(registry) |->
                            IF registry[k].coin_type = coin_type
                            THEN [registry[k] EXCEPT !.symbol = symbol] ELSE registry[k]]
                   ELSE Append(registry, [coin_type |-> coin_type, symbol |-> symbol])
    /\ UNCHANGED <<made, found>>

ToolsNext ==
    \/ cmd_wallet_create \/ generate_wallet \/ ai_agent_wallet
    \/ /\ made # NoAccount
       /\ \E phrase \in Typed(made.phrase) :
             \/ cmd_wallet_recover(phrase) \/ cmd_wallet_derive(phrase)
             \/ recover_wallet(phrase) \/ derive_address(phrase)
    \/ \E coin_type \in CoinType, symbol \in {"PISO", "PISO-DEV"} : register(coin_type, symbol)

ToolsSpec == ToolsInit /\ [][ToolsNext]_toolVars

\* The account that was created is found again by a tool that is given the phrase
\* as it was printed, the same passphrase and a path of the same indexes, and by
\* nothing else: a phrase with a slip in it, or spaced differently, is refused
\* or leads to another account.  Only derive_address of the SDK does not look at
\* the path: it finds the account of the default path under any, and no other.
ToolsAgree ==
    made # NoAccount /\ found # NoAccount =>
        (found.account = made.account <=>
            /\ found.phrase = made.phrase
            /\ found.passphrase = made.passphrase
            /\ IF found.tool = "derive_address" THEN made.coin_type = DefaultCoin
               ELSE /\ found.path # NotAPath /\ Len(found.path) = 5
                    /\ \A k \in 1 .. 5 : index_of(found.path[k])
                                       = index_of(build_path(made.coin_type, 0, 0)[k]))
=============================================================================
