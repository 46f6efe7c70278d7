------------------------------ MODULE Profiles ------------------------------
(***************************************************************************)
(* profiles/: saved connections, the plain half in profiles.json and the   *)
(* secrets in the OS keyring, with the CLI's profile command and the       *)
(* browser's profile manager as their users.  A process may crash between  *)
(* any two steps.  A connection is a record: kind, req (its required       *)
(* field), port and secret, where "" is blank.                             *)
(***************************************************************************)
EXTENDS Integers, Sequences, FiniteSets

CONSTANTS Users, Names, Kinds, Secrets, MaxOps

VARIABLES
    json,       \* profiles.json: name -> config, or Corrupt
    keyring,    \* name -> secret field -> value; "" : never set
    user,       \* process -> [pc, op, name, fields, read, i]
    ops         \* operations started so far

profVars == <<json, keyring, user, ops>>

Corrupt == [n \in {"?"} |-> 0]         \* a file that does not parse
Readable == DOMAIN json # DOMAIN Corrupt
IdleUser == [pc |-> "idle"]
\* secret_fields_for: here one secret field per kind.
SecretField(kind) == kind
NoSecrets == [k \in Kinds |-> ""]
Empty == [n \in {} |-> 0]
Without(f, n) == [m \in DOMAIN f \ {n} |-> f[m]]
With(f, n, e) == [m \in DOMAIN f \cup {n} |-> IF m = n THEN e ELSE f[m]]

\* config_from_fields: a blank required field, or a port that is no number, is refused; a blank port
\* is the default one.
FieldsAccepted(f) == f.req # "" /\ f.port # "nan"
ConfigFromFields(f) == [kind |-> f.kind, req |-> f.req, port |-> IF f.port = "" THEN "445" ELSE f.port,
                        given |-> f.secret # ""]

\* config_from_json is strict: what is written is what is read back.
Fields == [kind : Kinds, req : {"", "bucket"}, port : {"", "nan"}, secret : {""} \union Secrets]

ProfInit == json = Empty /\ keyring = [n \in Names |-> NoSecrets] /\ user = [u \in Users |-> IdleUser] /\ ops = 0

Starts(u, op, n, f) ==
    /\ user[u].pc = "idle" /\ ops < MaxOps /\ ops' = ops + 1
    /\ user' = [user EXCEPT ![u] = [pc |-> "begin", op |-> op, name |-> n, fields |-> f, read |-> Empty]]
    /\ UNCHANGED <<json, keyring>>
Goes(u, pc) == user' = [user EXCEPT ![u].pc = pc]
Ends(u) == user' = [user EXCEPT ![u] = IdleUser]

\* profile add: the fields first, then, without --force, that the name is free, then the secrets are
\* prompted for and, with --verify, a scan finds a repository.  The browser asks for no more than the
\* fields, and overwrites.
AddChecks(u, force, found) ==
    /\ user[u].pc = "begin" /\ user[u].op = "add"
    /\ IF FieldsAccepted(user[u].fields) /\ (force \/ (Readable /\ user[u].name \notin DOMAIN json)) /\ found
       THEN Goes(u, "save") ELSE Ends(u)
    /\ UNCHANGED <<json, keyring, ops>>

\* save_profile: the file is read before anything is written.
SaveReads(u) ==
    /\ user[u].pc = "save"
    /\ IF Readable THEN user' = [user EXCEPT ![u].pc = "first", ![u].read = json] ELSE Ends(u)
    /\ UNCHANGED <<json, keyring, ops>>

\* Mutant: the file before the secrets.
SaveOrderSwapped == <<"file", "secrets">>

\* Then the secrets, then the file.
SaveOrder == <<"secrets", "file">>
SaveStep(u) == IF user[u].pc = "first" THEN SaveOrder[1] ELSE IF user[u].pc = "second" THEN SaveOrder[2] ELSE "none"
SaveGoesOn(u) == IF user[u].pc = "first" THEN Goes(u, "second") ELSE Ends(u)

\* set_secrets merges: a blank secret leaves what is stored.  Without a keyring nothing more happens.
SetSecrets(u, usable) ==
    LET f == user[u].fields IN
    /\ SaveStep(u) = "secrets"
    /\ IF usable
       THEN /\ keyring' = IF f.secret = "" THEN keyring
                          ELSE [keyring EXCEPT ![user[u].name][SecretField(f.kind)] = f.secret]
            /\ SaveGoesOn(u)
       ELSE Ends(u) /\ UNCHANGED keyring
    /\ UNCHANGED <<json, ops>>

\* write_profiles: a temporary file replaces profiles.json at once, or is removed.
WriteProfiles(u, ok) ==
    /\ SaveStep(u) = "file"
    /\ IF ok
       THEN json' = With(user[u].read, user[u].name, ConfigFromFields(user[u].fields)) /\ SaveGoesOn(u)
       ELSE Ends(u) /\ UNCHANGED json
    /\ UNCHANGED <<keyring, ops>>

\* delete_profile: out of the file, then out of the keyring, which may be unusable by then.
DeleteReads(u) ==
    /\ user[u].pc = "begin" /\ user[u].op = "delete"
    /\ IF Readable /\ user[u].name \in DOMAIN json
       THEN user' = [user EXCEPT ![u].pc = "forget", ![u].read = json] ELSE Ends(u)
    /\ UNCHANGED <<json, keyring, ops>>

DeleteWrites(u) ==
    /\ user[u].pc = "forget"
    /\ json' = Without(user[u].read, user[u].name) /\ Goes(u, "unset")
    /\ UNCHANGED <<keyring, ops>>

DeleteSecrets(u, usable) ==
    /\ user[u].pc = "unset" /\ Ends(u)
    /\ keyring' = IF usable THEN [keyring EXCEPT ![user[u].name] = NoSecrets] ELSE keyring
    /\ UNCHANGED <<json, ops>>

\* The process dies between two steps.
UserCrashes(u) == user[u].pc # "idle" /\ Ends(u) /\ UNCHANGED <<json, keyring, ops>>

\* Someone edits the file by hand, and mends it by removing it.
HandEdit == json' = (IF Readable THEN Corrupt ELSE Empty) /\ ops < MaxOps /\ ops' = ops + 1 /\ UNCHANGED <<keyring, user>>

ProfNext ==
    \/ HandEdit
    \/ \E u \in Users :
          \/ \E n \in Names : \/ \E f \in Fields : Starts(u, "add", n, f)
                              \/ Starts(u, "delete", n, <<>>)
          \/ \E force, found \in BOOLEAN : AddChecks(u, force, found)
          \/ SaveReads(u) \/ DeleteReads(u) \/ DeleteWrites(u) \/ UserCrashes(u)
          \/ \E ok \in BOOLEAN : SetSecrets(u, ok) \/ WriteProfiles(u, ok) \/ DeleteSecrets(u, ok)

----------------------------------------------------------------------------
\* store_from_profile: the secret a profile connects with, of its own kind only.
SecretOf(n) == keyring[n][SecretField(json[n].kind)]

\* "Secrets are written before profiles.json, so a listed profile never lacks its secrets".
ListedHasSecrets == Readable => \A n \in DOMAIN json : json[n].given => SecretOf(n) # ""
=============================================================================
