------------------------------ MODULE HttpTexts ------------------------------
(***************************************************************************)
(* What the URL source reads out of texts: the host of a URL, which hosts  *)
(* are this machine or an OpenStreetMap server, dates, and Retry-After.    *)
(*                                                                         *)
(* A host name is the sequence of its labels, in lower case; a template    *)
(* may have placeholders among them.  A date is the record of its fields,  *)
(* a field that is not a number or a month name being NotANumber.          *)
(***************************************************************************)
EXTENDS Integers, SequencesExt

NotANumber == -1
Nothing == -1

----------------------------------------------------------------------------
(* UrlTemplate::url_for, as far as it reaches the host. *)
Substitute(label, c) ==
  CASE label = "{z}" -> ToString(c.z)
    [] label = "{x}" -> ToString(c.x)
    [] label = "{y}" -> ToString(c.y)
    [] OTHER -> label
UrlFor(template, c) ==
  [template EXCEPT !.labels = [k \in DOMAIN template.labels |-> Substitute(template.labels[k], c)]]

NoHost == <<>>
(* Userinfo and port are cut off, brackets are taken off an IPv6 literal;  *)
(* an empty authority or an unterminated bracket names no host.            *)
ExtractHost(url) == IF url.unterminated THEN NoHost ELSE url.labels

(* Mutant: the first octet is enough. *)
StartsWith127(host) == host # NoHost /\ host[1] = "127"

Octets == {ToString(n) : n \in 0..255}
IsIpv4Loopback(host) ==
  Len(host) = 4 /\ host[1] = "127" /\ \A k \in 2..4 : host[k] \in Octets

IsLoopback(host) ==
  IsSuffix(<<"localhost">>, host) \/ host = <<"::1">> \/ IsIpv4Loopback(host)
IsOsmHost(host) == IsSuffix(<<"tile", "openstreetmap", "org">>, host)

----------------------------------------------------------------------------
(* Dates. *)

(* Mutant: every fourth year has a leap day. *)
DaysFromCivilJulian(year, month, day) ==
  LET y == IF month <= 2 THEN year - 1 ELSE year
      doy == (153 * (month + (IF month > 2 THEN -3 ELSE 9)) + 2) \div 5 + day - 1
  IN y * 365 + y \div 4 + doy - 719468

(* Eras of 400 years that begin in March. *)
DaysFromCivil(year, month, day) ==
  LET y == IF month <= 2 THEN year - 1 ELSE year
      era == y \div 400
      yoe == y - era * 400
      doy == (153 * (month + (IF month > 2 THEN -3 ELSE 9)) + 2) \div 5 + day - 1
      doe == yoe * 365 + yoe \div 4 - yoe \div 100 + doy
  IN era * 146097 + doe - 719468

(* The day is only held against 31, whatever the month. *)
InRange(d) ==
  /\ d.year >= 1970 /\ d.month \in 1..12 /\ d.day \in 1..31
  /\ d.hour \in 0..23 /\ d.minute \in 0..59 /\ d.second \in 0..60

(* parse_http_date *)
ParseHttpDate(d) ==
  IF InRange(d)
    THEN DaysFromCivil(d.year, d.month, d.day) * 86400 + d.hour * 3600 + d.minute * 60 + d.second
    ELSE Nothing

(* parse_retry_after and the fallback around it: a number of seconds, a    *)
(* date that may lie in the past, or neither.                              *)
RetryAfter(header, now, fallback) ==
  CASE header.form = "seconds" -> header.seconds
    [] header.form = "date" /\ ParseHttpDate(header.date) # Nothing ->
         IF ParseHttpDate(header.date) > now THEN ParseHttpDate(header.date) - now ELSE 0
    [] OTHER -> fallback
=============================================================================
