-------------------------- MODULE CredentialStore --------------------------
(***************************************************************************)
(* The credential store (internal/authstore): the system keyring, with the *)
(* file tokens.json for when the keyring fails and two kinds of            *)
(* environment variables.  A call touches the keyring and the file in two  *)
(* steps, between which another command may change the file: its mutex     *)
(* covers one process only.  `broken` is what fails at present.            *)
(***************************************************************************)
EXTENDS Integers, FiniteSets

CONSTANTS Commands,     \* the processes that use the store
          Keys,
          Tokens,
          NoToken,      \* no entry, and what Get returns for ErrNotFound
          Unreadable,   \* tokens.json cannot be read or parsed, and Get's error
          NoCall,
          EnvToken,     \* EnvToken[k]: PLEXCTL_TOKEN_*
          LegacyEnv     \* LegacyEnv[k]: PLEX_TOKEN_*, for account keys

VARIABLES keyring, tokenFile,
          broken,       \* among the keyring, and reads and writes of tokens.json
          call          \* call[c]: the call c is in, between its two steps

storeVars == <<keyring, tokenFile, broken, call>>

Entry == Tokens \cup {NoToken}
Parts == {"keyring", "read", "write", "config"}
Calls == [op : {"set", "delete"}, key : Keys, value : Entry]

StoreTypeOK ==
  /\ keyring \in [Keys -> Entry]
  /\ tokenFile \in [Keys -> Entry]
  /\ broken \subseteq Parts
  /\ \A c \in Commands :
       call[c] # NoCall => /\ [op |-> call[c].op, key |-> call[c].key, value |-> call[c].value] \in Calls
                           /\ call[c].loaded \in [Keys -> Entry] \cup {Unreadable}

Works(part) == part \notin broken

LoadTokenFile == IF Works("read") THEN tokenFile ELSE Unreadable

\* What Get returns.
FileFallback(k) ==
  IF EnvToken[k] # NoToken THEN EnvToken[k]
  ELSE IF Works("read") THEN tokenFile[k] ELSE Unreadable

Get(k) ==
  IF Works("keyring") /\ keyring[k] # NoToken THEN keyring[k]
  ELSE IF FileFallback(k) # NoToken THEN FileFallback(k) ELSE LegacyEnv[k]

\* A credential is left somewhere under k.
Stored(k) == keyring[k] # NoToken \/ tokenFile[k] # NoToken

(***************************************************************************)
(* Set writes the keyring before it loads the file.  Delete loads the file *)
(* first and deletes from the keyring after it has saved the file.         *)
(***************************************************************************)
Enter(c, op, k, v) ==
  /\ call[c] = NoCall
  /\ call' = [call EXCEPT ![c] = [op |-> op, key |-> k, value |-> v,
                                  inKeyring |-> Works("keyring"), loaded |-> LoadTokenFile]]
  /\ UNCHANGED <<tokenFile, broken>>

SetBegins(c, k, t) ==
  /\ Enter(c, "set", k, t)
  /\ keyring' = IF Works("keyring") THEN [keyring EXCEPT ![k] = t] ELSE keyring

DeleteBegins(c, k) ==
  /\ Enter(c, "delete", k, NoToken)
  /\ UNCHANGED keyring

\* The file is saved when an entry is set, or one that was there is deleted.
Readable(x) == x.loaded # Unreadable
Present(x) == Readable(x) /\ x.loaded[x.key] # NoToken
FileValue(x) == IF x.inKeyring THEN NoToken ELSE x.value
Saves(x) == Readable(x) /\ (Present(x) \/ FileValue(x) # NoToken)
WriteErrorIgnored(x) == Readable(x)
FileDone(x) == Readable(x) /\ (Saves(x) => Works("write"))

SaveTokenFile(x) ==
  tokenFile' = IF Saves(x) /\ Works("write") THEN [x.loaded EXCEPT ![x.key] = FileValue(x)]
               ELSE tokenFile

SetEnds(c, ok) ==
  /\ call[c] # NoCall /\ call[c].op = "set"
  /\ ok = FileDone(call[c])
  /\ SaveTokenFile(call[c])
  /\ UNCHANGED keyring

\* An error of the keyring is dropped when the file had an entry.
DeleteEnds(c, ok) ==
  /\ call[c] # NoCall /\ call[c].op = "delete"
  /\ ok = (FileDone(call[c]) /\ (Works("keyring") \/ Present(call[c])))
  /\ SaveTokenFile(call[c])
  /\ keyring' = IF Works("keyring") THEN [keyring EXCEPT ![call[c].key] = NoToken] ELSE keyring

CallEnds(c, ok) ==
  /\ SetEnds(c, ok) \/ DeleteEnds(c, ok)
  /\ call' = [call EXCEPT ![c] = NoCall]
  /\ UNCHANGED broken

\* The keyring is locked or unlocked, a disk fills up or a file is repaired.
Flips(part) ==
  /\ broken' = IF part \in broken THEN broken \ {part} ELSE broken \cup {part}
  /\ UNCHANGED <<keyring, tokenFile, call>>
=============================================================================
