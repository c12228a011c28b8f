-------------------------------- MODULE Srp --------------------------------
(***************************************************************************)
(* The arithmetic of srp.service.ts (SRP-6a) in a group of the model's     *)
(* choice.  The hashes that only have to be the same on both sides are     *)
(* left out: a proof M1 is the tuple it hashes, the session key is S.      *)
(***************************************************************************)
EXTENDS Integers

CONSTANTS
    N,      \* a safe prime
    G,      \* generator of a large subgroup
    K       \* k = H(N, g), as a number

ASSUME SrpAssumption == N \in Nat /\ G \in 2 .. N - 1 /\ K \in Nat

\* The loop of modPow, from the low bit of the exponent up.
PowLoop[base \in Nat, exponent \in Nat, result \in Nat] ==
    IF exponent = 0 THEN result
    ELSE PowLoop[(base * base) % N, exponent \div 2,
                 IF exponent % 2 = 1 THEN (result * base) % N ELSE result]

ModPow(base, exponent) == PowLoop[((base % N) + N) % N, exponent, 1]

ComputeVerifier(x) == ModPow(G, x)

\* generateServerEphemeral for the secret b.
ServerEphemeral(v, b) == (K * v + ModPow(G, b)) % N

\* parseClientEphemeral refuses 0 mod N.
Acceptable(A) == A % N # 0

\* u = H(A, B): some function of both.
Scramble(A, B) == (A + 3 * B) % N

\* Mutant: the verifier is not raised to u.
SecretUnscrambled(A, B, v, b) == ModPow(A * v, b)

\* verifyClientProof: S = (A * v^u)^b.
ServerSecret(A, B, v, b) == ModPow(A * ModPow(v, Scramble(A, B)), b)

\* The client's side: A = g^a and S = (B - k g^x)^(a + u x).
ClientEphemeral(a) == ModPow(G, a)

ClientSecret(A, B, a, x) ==
    ModPow(B - K * ModPow(G, x), a + Scramble(A, B) * x)

\* What M1 commits to: the salt (of the account), A, B and the key.
Proof(salt, A, B, S) == <<salt, A, B, S>>
=============================================================================
