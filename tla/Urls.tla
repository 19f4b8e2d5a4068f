--------------------------------- MODULE Urls ----------------------------------
(***************************************************************************)
(* The path a relayed request takes in internal/proxy/proxy.go: direct     *)
(* sends it to the backend, ServeHTTP records it, and both join it to the  *)
(* base path of the target.  A path is a sequence of "/", the names "api"  *)
(* and "gen" and "%2F", a slash that is part of a name.                    *)
(***************************************************************************)
EXTENDS Naturals, SequencesExt

\* net/url (external): Path is decoded, RawPath keeps an encoding that differs.
Decoded(q) == [i \in 1 .. Len(q) |-> IF q[i] = "%2F" THEN "/" ELSE q[i]]
RawPath(q) == IF Contains(q, "%2F") THEN q ELSE <<>>

\* URL.EscapedPath (external): RawPath counts while it encodes Path.
EscapedPath(path, raw) == IF raw # <<>> /\ Decoded(raw) = path THEN raw ELSE path

TrimSlashEnd(q)   == IF q # <<>> /\ Last(q) = "/" THEN Front(q) ELSE q
TrimSlashStart(q) == IF q # <<>> /\ Head(q) = "/" THEN Tail(q) ELSE q

\* Mutant: the base keeps its slash.
JoinPathTwice(base, path) ==
    CASE base \in {<<>>, <<"/">>} -> path
      [] path \in {<<>>, <<"/">>} /\ base \notin {<<>>, <<"/">>} -> base
      [] OTHER -> base \o <<"/">> \o TrimSlashStart(path)

\* joinPath.
JoinPath(base, path) ==
    CASE base \in {<<>>, <<"/">>} -> path
      [] path \in {<<>>, <<"/">>} /\ base \notin {<<>>, <<"/">>} -> base
      [] OTHER -> TrimSlashEnd(base) \o <<"/">> \o TrimSlashStart(path)

\* direct: the path on the wire to the backend.
Relayed(base, q) == EscapedPath(JoinPath(base, Decoded(q)), RawPath(q))

\* ServeHTTP: the path of the recorded URL, which a replay sends again.
Recorded(base, q) == EscapedPath(JoinPath(base, Decoded(q)), <<>>)

\* isOllamaPath, for /api/generate.
IsOllamaPath(path) == IsSuffix(<<"/", "api", "/", "gen">>, path)

-------------------------------------------------------------------------------
\* The names of a path, in order.
Names(q) == FlattenSeq([i \in 1 .. Len(q) |-> IF q[i] # "/" THEN <<q[i]>> ELSE <<>>])

\* A slash too many, or one too few where base and path meet.
Doubled(q) == \E i \in 1 .. Len(q) - 1 : q[i] = "/" /\ q[i + 1] = "/"
Glued(q)   == \E i \in 1 .. Len(q) - 1 : {q[i], q[i + 1]} \subseteq {"api", "gen"}

(***************************************************************************)
(* The backend is asked for the client's path below the base, without a    *)
(* doubled or a missing slash, and the recorded URL is the one it was      *)
(* asked for.  Of a name that contains an encoded slash this is true only  *)
(* in part: without a base the recorded URL has lost the encoding, below a *)
(* base the backend gets the slash decoded.  A replay of the recorded URL  *)
(* is taken for an Ollama call whenever the relayed request was.           *)
(***************************************************************************)
PathKept(base, q) ==
    /\ ~Glued(Relayed(base, q))
    /\ ~Doubled(base) /\ ~Doubled(Decoded(q)) => ~Doubled(Relayed(base, q))
    /\ ~Contains(q, "%2F") =>
          /\ Recorded(base, q) = Relayed(base, q)
          /\ Names(Relayed(base, q)) = Names(base) \o Names(q)
    /\ base \in {<<>>, <<"/">>} => Relayed(base, q) = q
    /\ IsOllamaPath(Decoded(q)) => IsOllamaPath(Recorded(base, q))
===============================================================================
