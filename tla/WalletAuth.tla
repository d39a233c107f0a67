----------------------------- MODULE WalletAuth -----------------------------
(***************************************************************************)
(* Wallet sign-in (backend auth/auth.service.ts): a wallet signs a login   *)
(* message ("Login: <timestamp>") and sends publicKey, message and         *)
(* signature; validateWallet checks the address format and the signature   *)
(* through the wallet adapter, and login signs a JWT for the publicKey.    *)
(*                                                                         *)
(* The network is a set of the signed requests ever sent: anyone who saw   *)
(* one may send it again, and anyone may send an unsigned one.  A          *)
(* signature is the wallet that produced it, or "forged"; an address       *)
(* outside Wallets is BadAddress.  The adapter call,                       *)
(* run behind the factory's circuit breaker, may throw.                    *)
(***************************************************************************)
EXTENDS Naturals, Sequences

CONSTANTS
    Wallets,        \* valid wallet public keys
    Messages,       \* login messages a wallet may sign
    BadAddress,     \* a publicKey validateAddress rejects
    MaxLogins       \* bound on the validateWallet calls

VARIABLES
    signed,     \* <<wallet, message>> pairs the wallets have signed
    net,        \* login requests seen on the wire
    tokens,     \* the requests an access_token was issued for, in order
    calls       \* validateWallet calls so far

authVars == <<signed, net, tokens, calls>>

Request == [publicKey : Wallets \cup {BadAddress}, message : Messages,
            signature : Wallets \cup {"forged"}]

\* A wallet signs a fresh login message and sends the request.
WalletSigns(w, m) ==
    /\ <<w, m>> \notin signed
    /\ signed' = signed \cup {<<w, m>>}
    /\ net' = net \cup {[publicKey |-> w, message |-> m, signature |-> w]}
    /\ UNCHANGED <<tokens, calls>>

\* Requests anyone can craft without a wallet's key: a wrong signature, or
\* a bad address.
Unsigned == {r \in Request : r.signature # r.publicKey}

\* verifySignature(publicKey, message, signature).
VerifySignature(r) == r.signature = r.publicKey

\* validateWallet(loginDto), and on success login(user): an invalid address
\* or signature, or an adapter error, is an UnauthorizedException; otherwise
\* a token for publicKey.  Nothing records the message: the replay check is
\* a comment.
ValidateWallet(r) ==
    /\ calls < MaxLogins
    /\ calls' = calls + 1
    /\ \/ /\ r.publicKey = BadAddress
          /\ UNCHANGED tokens
       \/ /\ r.publicKey # BadAddress
          /\ \/ UNCHANGED tokens
             \/ /\ VerifySignature(r)
                /\ tokens' = Append(tokens, r)
    /\ UNCHANGED <<signed, net>>

AuthInit ==
    /\ signed = {}
    /\ net = {}
    /\ tokens = << >>
    /\ calls = 0

AuthNext ==
    \/ \E w \in Wallets, m \in Messages : WalletSigns(w, m)
    \/ \E r \in net \cup Unsigned : ValidateWallet(r)

AuthSpec == AuthInit /\ [][AuthNext]_authVars

-----------------------------------------------------------------------------
(* Properties                                                              *)

\* A token is issued only for a wallet that signed that very message.
TokenOnlyForSigner ==
    \A i \in DOMAIN tokens :
        <<tokens[i].publicKey, tokens[i].message>> \in signed

\* A signed login message is accepted once: a request replayed from the
\* wire (the "Check for replay attacks" the code leaves commented out) is
\* refused.
NoReplayAccepted ==
    \A i, j \in DOMAIN tokens : i < j => tokens[i] # tokens[j]
=============================================================================
