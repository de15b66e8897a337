---------------------------- MODULE MCIdentities ----------------------------
(***************************************************************************)
(* Who holds what, in two parts that share nothing: the identities of      *)
(* installs and the keys of the self-serve login.  A behaviour is one of   *)
(* either, and the other stands still.                                     *)
(*                                                                         *)
(* The configuration names the browsers as it names the installs, the keys *)
(* as the tokens, and the logins as the states of an upgrade, so that one  *)
(* permutation renames both parts.                                         *)
(***************************************************************************)
EXTENDS DriftIdentity, LoginOAuth, TLC

VARIABLE part

\* Installs, tokens, GitHub accounts, states and request slots are interchangeable, and
\* so are browsers, keys, logins and their requests: no definition names one of them.
Symmetry == Permutations(Install) \cup Permutations(Token) \cup Permutations(Gh)
              \cup Permutations(State) \cup Permutations(Req)

\* The login that stands still has one account.
IdentitiesInit ==
  /\ part \in {"install", "login"}
  /\ Init /\ LoginInit
  /\ part = "install" => accountOf = [b \in Browser |-> CHOOSE a \in Account : TRUE]

IdentitiesNext ==
  /\ UNCHANGED part
  /\ \/ part = "install" /\ Next /\ UNCHANGED loginVars
     \/ part = "login" /\ LoginNext /\ UNCHANGED vars

IdentitiesSpec == IdentitiesInit /\ [][IdentitiesNext]_<<part, vars, loginVars>>
=============================================================================
