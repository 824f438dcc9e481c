------------------------------ MODULE Startup -------------------------------
(***************************************************************************)
(* What a process of the broker finds and leaves behind when it starts:    *)
(* the first administrator, the file with its generated password, the key  *)
(* that signs tokens, and the tokens that clients hold while processes     *)
(* end at any point and new ones start (internal/app/app.go, db/db.go,     *)
(* auth/jwt/jwt.go, api/v1/auth.go).                                       *)
(*                                                                         *)
(* A password or a key is named by the process that made it; 0 stands for  *)
(* the configured password, and for the configured HMAC secret.  The names *)
(* of the specification carry the module's own, for AccessProofs to extend *)
(* it beside Accounts.                                                     *)
(***************************************************************************)
EXTENDS Naturals

CONSTANTS MaxLives,   \* bound on the processes, one after the other
          MaxTime,    \* bound on the clock
          AccessTTL,  \* life of an access token
          RefreshTTL, \* life of a refresh token
          Secret,     \* an HMAC secret is configured
          Mishaps,    \* what may happen, some of: "save", "read", "power"
          Absent

(* No process, password or key is called Absent.                           *)
ASSUME AbsentAssumption == Absent \notin Nat

VARIABLES now,
          life,     \* the processes so far
          pc,       \* the next step of app.New, "up", or "down"
          auto,     \* autoGeneratedPassword
          created,  \* Store.adminCreated
          admin,    \* the password behind the administrator's hash
          changed,  \* history: it was changed through the API
          cred,     \* the password in admin_credentials.txt; Absent: not a whole file
          keyFile,  \* the key in jwt_private.pem; Absent: not a whole file
          keyStore, \* Manager.keyStore
          tokens,   \* access tokens at large: who signed them, and until when
          refresh   \* refresh tokens at large: until when

startupVars == <<now, life, pc, auto, created, admin, changed, cred, keyFile,
                 keyStore, tokens, refresh>>

account == <<admin, changed, cred>>
clients == <<tokens, refresh>>

-----------------------------------------------------------------------------
(* New, up to the database: a password is made up if none is configured.   *)
Start(given) ==
  /\ pc = "down" /\ life < MaxLives
  /\ life' = life + 1 /\ pc' = "seed" /\ auto' = ~given
  /\ created' = FALSE /\ keyStore' = Absent
  /\ UNCHANGED <<now, account, keyFile, clients>>

(* seedDefaultData: an administrator, if there is no user.                 *)
Seed ==
  /\ pc = "seed"
  /\ created' = (admin = Absent)
  /\ admin' = IF admin # Absent THEN admin ELSE IF auto THEN life ELSE 0
  /\ pc' = "credentials"
  /\ UNCHANGED <<now, life, auto, changed, cred, keyFile, keyStore, clients>>

\* Mutant of NewCredentials: a restart writes the file too.
NewCredentialsAlways == auto

(* "ONLY when the admin was freshly created".                              *)
NewCredentials == auto /\ created

(* os.WriteFile truncates the file ...                                     *)
TruncateCredentials ==
  /\ pc = "credentials"
  /\ IF NewCredentials THEN cred' = Absent /\ pc' = "password"
     ELSE pc' = "load" /\ UNCHANGED cred
  /\ UNCHANGED <<now, life, auto, created, admin, changed, keyFile, keyStore, clients>>

(* ... and then writes it; an error is logged, and New goes on.            *)
WriteCredentials ==
  /\ pc = "password" /\ pc' = "load"
  /\ \/ cred' = life
     \/ "save" \in Mishaps /\ UNCHANGED cred
  /\ UNCHANGED <<now, life, auto, created, admin, changed, keyFile, keyStore, clients>>

-----------------------------------------------------------------------------
(* loadOrGenerateRSAKeys: the key of the file, if it can be read; ...      *)
LoadKey ==
  /\ pc = "load"
  /\ \/ /\ keyFile # Absent
        /\ keyStore' = keyFile /\ pc' = "up" /\ UNCHANGED keyFile
     \/ /\ keyFile = Absent \/ "read" \in Mishaps
        /\ keyFile' = Absent /\ pc' = "save" /\ UNCHANGED keyStore
  /\ UNCHANGED <<now, life, auto, created, account, clients>>

(* ... or else a new one, used if it could be saved.                       *)
SaveKey ==
  /\ pc = "save" /\ pc' = "up"
  /\ \/ keyFile' = life /\ keyStore' = life
     \/ "save" \in Mishaps /\ UNCHANGED <<keyFile, keyStore>>
  /\ UNCHANGED <<now, life, auto, created, account, clients>>

(* The process ends. The key's file is never synced: where a machine stops *)
(* with it, a file that was just written may be empty.                     *)
Crash ==
  /\ pc # "down" /\ pc' = "down"
  /\ \/ UNCHANGED keyFile
     \/ "power" \in Mishaps /\ keyFile = life /\ keyFile' = Absent
  /\ UNCHANGED <<now, life, auto, created, account, keyStore, clients>>

-----------------------------------------------------------------------------
(* signClaims: the key, or else the secret, or else an error.              *)
Signer == IF keyStore # Absent THEN keyStore ELSE IF Secret THEN 0 ELSE Absent

(* GenerateTokens and RefreshTokens hand out a pair of tokens.             *)
HandOut ==
  /\ Signer # Absent
  /\ tokens' = tokens \cup {[by |-> Signer, exp |-> now + AccessTTL]}
  /\ refresh' = refresh \cup {now + RefreshTTL}

Login ==
  /\ pc = "up" /\ admin # Absent
  /\ HandOut
  /\ UNCHANGED <<now, life, pc, auto, created, account, keyFile, keyStore>>

(* validateRefreshToken looks at the secret and at the clock only.         *)
RefreshTokens ==
  /\ pc = "up"
  /\ \E exp \in refresh : exp >= now
  /\ HandOut
  /\ UNCHANGED <<now, life, pc, auto, created, account, keyFile, keyStore>>

(* PATCH /users: the administrator takes another password.                 *)
ChangePassword ==
  /\ pc = "up" /\ ~changed
  /\ changed' = TRUE
  /\ UNCHANGED <<now, life, pc, auto, created, admin, cred, keyFile, keyStore, clients>>

Tick ==
  /\ now < MaxTime /\ now' = now + 1
  /\ UNCHANGED <<life, pc, auto, created, account, keyFile, keyStore, clients>>

StartupInit ==
  /\ now = 0 /\ life = 0 /\ pc = "down"
  /\ auto = FALSE /\ created = FALSE
  /\ admin = Absent /\ changed = FALSE /\ cred = Absent
  /\ keyFile = Absent /\ keyStore = Absent
  /\ tokens = {} /\ refresh = {}

StartupNext ==
  \/ \E given \in BOOLEAN : Start(given)
  \/ Seed \/ TruncateCredentials \/ WriteCredentials \/ LoadKey \/ SaveKey \/ Crash
  \/ Login \/ RefreshTokens \/ ChangePassword \/ Tick

StartupSpec == StartupInit /\ [][StartupNext]_startupVars

-----------------------------------------------------------------------------
(* VerifyAccessToken: with the key only where there is one.                *)
VerifyAccessToken(t) == Signer # Absent /\ t.by = Signer /\ t.exp >= now

StartupTypeOK ==
  /\ now \in Nat /\ life \in Nat
  /\ pc \in {"down", "seed", "credentials", "password", "load", "save", "up"}
  /\ {auto, created, changed} \subseteq BOOLEAN
  /\ {admin, cred, keyFile, keyStore} \subseteq 0..life \cup {Absent}
  /\ tokens \subseteq [by : 0..life, exp : Nat] /\ refresh \subseteq Nat

(* "On restarts, a new random password is generated but never written to   *)
(* the DB ..., so overwriting the file would corrupt the credentials": a   *)
(* credentials file opens the administrator's account until the password   *)
(* is changed through the API.                                             *)
CredentialsOpen == cred # Absent /\ ~changed => admin = cred

(* A token that has not expired is accepted by every later process.        *)
TokensAccepted == pc = "up" => \A t \in tokens : t.exp >= now => VerifyAccessToken(t)

(* Restarts, starts that were cut short anywhere, and starts that could    *)
(* not write their files take away from nobody what gave them access: the  *)
(* credentials file is right, and who has logged in stays so.              *)
AccessSurvives == CredentialsOpen /\ TokensAccepted

(* Once the broker is up, its administrator can be reached: the password   *)
(* is configured, in the file, or was changed by somebody who knew it.     *)
AdminReachable == pc = "up" /\ ~changed => admin \in {0, cred}
=============================================================================
