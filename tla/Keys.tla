-------------------------------- MODULE Keys --------------------------------
(***************************************************************************)
(* Where private keys are put away, and what they sign.                    *)
(*                                                                         *)
(* Custody: wallet/encryption/keystore.py, wallet/validator/               *)
(* validator_key.py with the commands that use it, and                     *)
(* scripts/kms_key_manager.py.  Digests and ciphers are free: what is      *)
(* enciphered stands beside the key it was enciphered with.                *)
(*                                                                         *)
(* Signing: wallet/account/account.py, crypto/signer.py, crypto/pqc.py,    *)
(* multisig/multisig.py, hardware/apdu.py.  A signature is [scheme, by,    *)
(* hash]; it exists once its signer made it.  Addresses stand for keys,    *)
(* and the spellings of an address for it.                                 *)
(***************************************************************************)
EXTENDS Integers, Sequences, FiniteSets

(* Custody *)

CONSTANTS
    Seed,           \* bound: what os.urandom returns for a key
    Password,       \* bound
    Provider,       \* bound: the providers named to KMSKeyManager
    MaxProcess,     \* bound: starts of a process
    MaxManager      \* bound: objects of KMSKeyManager

VARIABLES
    process,        \* the process that runs
    managers,       \* its KMSKeyManager objects: [provider, master]
    masters,        \* history: how many made a local_master_key, in all
    keystore,       \* the keystore written, or NoFile
    envelope,       \* the envelope written, or NoFile
    opened,         \* what opening a file gave: [file, with, gave]
    printed,        \* what a validator command printed of a new key
    put             \* history: what was put into each file, and with what

managerVars == <<process, managers, masters>>
custodyVars == <<managerVars, keystore, envelope, opened, printed, put>>

NoFile == [provider |-> "none"]
NotOpened == [file |-> "none"]
\* Keys are pairs; these stand beside them.
Raised == <<"error", "">>
Garbage == <<"not the key", "">>    \* what comes out is taken for a key
FixedText == <<"fixed text", "">>   \* the same for every key

CustodyInit ==
    /\ process = 0 /\ managers = {} /\ masters = 0
    /\ keystore = NoFile /\ envelope = NoFile /\ opened = NotOpened
    /\ printed = {}
    /\ put = [keystore |-> << >>, envelope |-> << >>]

Opens(file, with, gave) ==
    /\ opened' = [file |-> file, with |-> with, gave |-> gave]
    /\ UNCHANGED <<managerVars, keystore, envelope, printed, put>>

-----------------------------------------------------------------------------
(* KeystoreManager *)

\* Mutant: the salt is the process's own and not the one in the file.
process_key(file, password) == <<password, process>>

derived_key(file, password) == <<password, file.salt>>

\* The salt is random; the start it was drawn in tells it apart.
encrypt_private_key(key, password, role) ==
    /\ put' = [put EXCEPT !.keystore = <<key, password>>]
    /\ keystore' = [provider |-> "keystore", salt |-> process, cipher |-> "aes-256-gcm",
                    text |-> key, intact |-> TRUE, mac |-> <<password, process>>,
                    tag |-> TRUE, piso_role |-> role]
    /\ opened' = NotOpened
    /\ UNCHANGED <<managerVars, envelope, printed>>

\* The MAC covers the text, and only a GCM cipher has a tag of its own; another
\* name in the file falls back to CTR, which deciphers to anything.
decrypt_keystore(password) ==
    /\ keystore # NoFile
    /\ Opens("keystore", password,
             IF ~keystore.intact \/ derived_key(keystore, password) # keystore.mac THEN Raised
             ELSE IF keystore.cipher # "aes-256-gcm" THEN Garbage
             ELSE IF keystore.tag THEN keystore.text ELSE Raised)

\* External: a file on disk is damaged in one field.
Damage ==
    /\ keystore # NoFile
    /\ \/ keystore' = [keystore EXCEPT !.intact = FALSE]
       \/ keystore' = [keystore EXCEPT !.cipher = "aes-128-ctr"]
       \/ keystore' = [keystore EXCEPT !.tag = FALSE]
    /\ opened' = NotOpened
    /\ UNCHANGED <<managerVars, envelope, printed, put>>

-----------------------------------------------------------------------------
(* ValidatorKey and its commands: every command draws a new seed. *)

\* Keys of different roles are different even from one seed.
private_key(role, seed) == <<role, seed>>
assert_role(role, expected) == role = expected

\* Only a validator's key signs blocks.
sign_block_proposal(role) ==
    /\ printed' = IF assert_role(role, "VALIDATOR") THEN {"signature"} ELSE {}
    /\ UNCHANGED <<managerVars, keystore, envelope, opened, put>>

export_keystore(role, key, password) == encrypt_private_key(key, password, role)

cmd_validator_create ==
    /\ printed' = {"address", "public key", "private key"}
    /\ UNCHANGED <<managerVars, keystore, envelope, opened, put>>

\* The key itself is neither printed nor kept.
cmd_validator_rotate ==
    /\ printed' = {"address", "public key"}
    /\ UNCHANGED <<managerVars, keystore, envelope, opened, put>>

cmd_validator_export ==
    \E seed \in Seed, password \in Password :
        export_keystore("VALIDATOR", private_key("VALIDATOR", seed), password)

-----------------------------------------------------------------------------
(* KMSKeyManager *)

Stubs == {"aws", "gcp", "vault"}

\* Every object draws a master key of its own, which is kept nowhere else.
NewManager(provider) ==
    /\ masters < MaxManager
    /\ masters' = masters + 1
    /\ managers' = managers \cup {[provider |-> provider, master |-> masters + 1]}
    /\ UNCHANGED <<process, keystore, envelope, opened, printed, put>>

\* With any other provider the key is enciphered here, with the object's key.
kms_encrypt(manager, key) ==
    /\ envelope' = IF manager.provider \in Stubs
                   THEN [provider |-> manager.provider]
                   ELSE [provider |-> "local_aes_gcm", master |-> manager.master,
                         text |-> key]
    /\ put' = [put EXCEPT !.envelope = <<key, manager.master>>]
    /\ opened' = NotOpened
    /\ UNCHANGED <<managerVars, keystore, printed>>

\* The envelope names its provider, not the object.  Nothing of the key is in
\* what the stubs of the services return.
kms_decrypt(manager) ==
    /\ envelope # NoFile
    /\ Opens("envelope", manager.master,
             IF envelope.provider \in Stubs THEN FixedText
             ELSE IF envelope.master # manager.master THEN Raised
             ELSE envelope.text)

StartAgain ==
    /\ process < MaxProcess
    /\ process' = process + 1 /\ managers' = {}
    /\ opened' = NotOpened
    /\ UNCHANGED <<masters, keystore, envelope, printed, put>>

CustodyNext ==
    \/ \E seed \in Seed, password \in Password :
          export_keystore("WALLET", private_key("WALLET", seed), password)
    \/ \E password \in Password : decrypt_keystore(password)
    \/ Damage
    \/ \E role \in {"WALLET", "VALIDATOR"} : sign_block_proposal(role)
    \/ cmd_validator_create \/ cmd_validator_rotate \/ cmd_validator_export
    \/ \E provider \in Provider : NewManager(provider)
    \/ \E manager \in managers :
          \/ \E seed \in Seed : kms_encrypt(manager, private_key("VALIDATOR", seed))
          \/ kms_decrypt(manager)
    \/ StartAgain

CustodySpec == CustodyInit /\ [][CustodyNext]_custodyVars

\* A keystore opens with its password in every later process, to the key put in;
\* with another, or damaged, to none, unless the damage is in the name of its
\* cipher.  An envelope sealed here opens to the one object that sealed it: to
\* no other of the same process, and after a restart to none.  One of a service
\* never opens to the key.
FilesOpenToTheirKeys ==
    /\ opened.file = "keystore" /\ keystore.cipher = "aes-256-gcm" =>
          opened.gave = IF keystore.intact /\ keystore.tag /\ opened.with = put.keystore[2]
                        THEN put.keystore[1] ELSE Raised
    /\ opened.file = "envelope" =>
          (opened.gave = put.envelope[1] <=>
              envelope.provider = "local_aes_gcm" /\ opened.with = put.envelope[2])

-----------------------------------------------------------------------------
(* Signing *)

CONSTANTS
    Signatory,      \* addresses
    Owners,         \* bound: the lists of owners given, sequences of addresses
    Threshold,      \* bound: the thresholds given
    TxHash,         \* bound: the hashes signed
    Proposed,       \* the one of the transaction of the multisig wallet
    Schemes,        \* of "secp256k1", "ed25519" and "ML-DSA-65", those used
    MaxSigned       \* bound

VARIABLES
    wallet,         \* the multisig wallet: [owners, threshold]
    tx_hash,        \* of the transaction proposed
    signatures,     \* its signatures: the name each stands under -> signature
    signed,         \* history: every signature made
    verdict         \* what the last verification, or exchange, answered

signingVars == <<wallet, tx_hash, signatures, signed, verdict>>

NoAddress == "no address"
NoWallet == [owners |-> << >>, threshold |-> 0]
NotSigned == [scheme |-> "none", by |-> "none", hash |-> "none"]

SigningInit ==
    /\ wallet = NoWallet
    /\ tx_hash = Proposed
    /\ signatures = [name \in Signatory \cup {NoAddress} |-> NotSigned]
    /\ signed = {}
    /\ verdict = "none"

\* A hash that is not of 32 bytes is refused by the account and digested by a
\* signer, so that every message can be signed by one.
sign(scheme, a, hash) ==
    /\ Cardinality(signed) < MaxSigned
    /\ signed' = signed \cup {[scheme |-> scheme, by |-> a, hash |-> hash]}
    /\ verdict' = "none"
    /\ UNCHANGED <<wallet, tx_hash, signatures>>

Signs(scheme, a, hash, s) == s = [scheme |-> scheme, by |-> a, hash |-> hash]

\* An account of any other curve accepts everything.
verify_signature(scheme, a, hash, s) == scheme # "secp256k1" \/ Signs(scheme, a, hash, s)

\* secp256k1 is verified against a public key, ed25519 by signing again with the
\* key of the verifier, and so is ML-DSA-65.
classical_verify(scheme, a, hash, s) == Signs(scheme, a, hash, s)

pqc_verify(a, hash, s) == Signs("ML-DSA-65", a, hash, s)

Verify(verifier, scheme, a, hash, s) ==
    /\ verdict' = IF \/ verifier = "account" /\ verify_signature(scheme, a, hash, s)
                     \/ verifier = "signer" /\ scheme = "ML-DSA-65" /\ pqc_verify(a, hash, s)
                     \/ verifier = "signer" /\ scheme # "ML-DSA-65"
                        /\ classical_verify(scheme, a, hash, s)
                  THEN "valid" ELSE "not valid"
    /\ UNCHANGED <<wallet, tx_hash, signatures, signed>>

-----------------------------------------------------------------------------
(* MultisigWallet, MultisigTransaction *)

\* The length of the list is what bounds the threshold: an owner listed twice
\* counts there, and once where signatures are counted.
NewMultisig(owners, threshold) ==
    /\ wallet = NoWallet
    /\ IF threshold < 1 \/ threshold > Len(owners)
       THEN verdict' = "ValueError" /\ UNCHANGED wallet
       ELSE verdict' = "none" /\ wallet' = [owners |-> owners, threshold |-> threshold]
    /\ UNCHANGED <<tx_hash, signatures, signed>>

\* Anyone may put any signature under any name; a later one replaces it.
add_signature(name, s) ==
    /\ signatures' = [signatures EXCEPT ![name] = s]
    /\ verdict' = "none"
    /\ UNCHANGED <<wallet, tx_hash, signed>>

\* Mutant: the signature may be that of another owner.
by_some_owner(owner) ==
    /\ signatures[owner].hash = tx_hash /\ signatures[owner].scheme = "secp256k1"
    /\ \E k \in 1 .. Len(wallet.owners) : wallet.owners[k] = signatures[owner].by

signed_by_owner(owner) ==
    signatures[owner] = [scheme |-> "secp256k1", by |-> owner, hash |-> tx_hash]

valid_signatures ==
    {a \in Signatory : (\E k \in 1 .. Len(wallet.owners) : wallet.owners[k] = a)
                       /\ signed_by_owner(a)}

\* A name that is no address raises, whatever the others are worth.
verify_transaction ==
    /\ wallet # NoWallet
    /\ verdict' = IF signatures[NoAddress] # NotSigned THEN "error"
                  ELSE IF Cardinality(valid_signatures) >= wallet.threshold
                  THEN "approved" ELSE "not approved"
    /\ UNCHANGED <<wallet, tx_hash, signatures, signed>>

-----------------------------------------------------------------------------
(* HardwareWalletTransport: every command that fits a frame succeeds. *)

exchange(bytes) ==
    /\ verdict' = IF bytes > 255 THEN "ValueError" ELSE "0x9000"
    /\ UNCHANGED <<wallet, tx_hash, signatures, signed>>

SigningNext ==
    \/ \E scheme \in Schemes, a \in Signatory, hash \in TxHash : sign(scheme, a, hash)
    \/ \E verifier \in {"account", "signer"}, s \in signed, a \in Signatory, hash \in TxHash :
          Verify(verifier, s.scheme, a, hash, s)
    \/ \E owners \in Owners, threshold \in Threshold : NewMultisig(owners, threshold)
    \/ \E name \in Signatory \cup {NoAddress}, s \in signed : add_signature(name, s)
    \/ verify_transaction
    \/ \E bytes \in {65, 255, 256} : exchange(bytes)

SigningSpec == SigningInit /\ [][SigningNext]_signingVars

\* A transaction is approved only when as many different owners as the threshold
\* asks for signed it themselves, under whatever names the signatures were put.
ApprovedByOwners ==
    verdict = "approved" =>
        \E signers \in SUBSET Signatory :
            /\ Cardinality(signers) >= wallet.threshold
            /\ \A a \in signers :
                  /\ \E k \in 1 .. Len(wallet.owners) : wallet.owners[k] = a
                  /\ [scheme |-> "secp256k1", by |-> a, hash |-> tx_hash] \in signed
=============================================================================
