------------------------------- MODULE Routing -------------------------------
(***************************************************************************)
(* From a path to a profile (matchProfile), and from a response back to a  *)
(* path: the pagination links a client follows (rewriteNext).  A path is   *)
(* the sequence of its segments: "/" is <<"">> and "/a/" is <<"a", "">>.   *)
(***************************************************************************)
EXTENDS Startup

NoRoute == [profile |-> "none", path |-> <<>>]

(* Fault: a prefix matches in the middle of a segment; here, its first      *)
(* segment is enough.                                                       *)
claimsByFirstSegment(pre, path) == Len(path) > 0 /\ Head(path) = Head(pre)

(* path == prefix, or path begins with prefix + "/".                        *)
claims(pre, path) ==
  Len(pre) <= Len(path) /\ SubSeq(path, 1, Len(pre)) = pre

(* The path without the prefix, "/" when nothing is left.                   *)
stripped(pre, path) ==
  IF Len(pre) = Len(path) THEN <<"">>
  ELSE SubSeq(path, Len(pre) + 1, Len(path))

(* The first profile, in the order they were built, whose prefix claims the *)
(* path; else Firecrawl, unstripped, as long as the legacy fallback is on.  *)
matchProfile(profiles, path, legacy) ==
  LET claimants == {p \in DOMAIN profiles : claims(profiles[p].prefix, path)}
      first == CHOOSE p \in claimants :
                 \A q \in claimants : BuildOrder[p] <= BuildOrder[q]
  IN  IF claimants # {}
      THEN [profile |-> first, path |-> stripped(profiles[first].prefix, path)]
      ELSE IF legacy THEN [profile |-> "firecrawl", path |-> path]
      ELSE NoRoute

-----------------------------------------------------------------------------
(* A string of a JSON response: the name of its field, and the URL it is,   *)
(* host and path; no host for a relative URL or anything else.              *)

(* Fault: any absolute URL is taken for upstream's own.                     *)
rewriteAnyHost(link, base) ==
  IF link.name = "next" /\ link.host # "none" /\ base # Garbage
  THEN [link EXCEPT !.host = base] ELSE link

(* Only fields named next, only absolute URLs on the profile's host, and    *)
(* only with a base that has a host; scheme and host become the base's and  *)
(* the path stays, without a route prefix.                                  *)
rewriteNext(link, base) ==
  IF link.name = "next" /\ link.host = "upstream" /\ base # Garbage
  THEN [link EXCEPT !.host = base] ELSE link
=============================================================================
