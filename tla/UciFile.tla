------------------------------- MODULE UciFile -------------------------------
(***************************************************************************)
(* A UCI config file as the agent reads and edits it (internal/uci): a     *)
(* sequence of lines, edited in place so that every line that is not the   *)
(* edited option stays.  A line is given by what Parse makes of it; how    *)
(* words are quoted is left out.                                           *)
(***************************************************************************)
EXTENDS Integers, Sequences

CONSTANT Empty         \* the empty value ''

Header(name) == [kind |-> "section", key |-> name, value |-> Empty]
Option(key, v) == [kind |-> "option", key |-> key, value |-> v]
\* A comment, a blank line, an option before any section, unknown syntax.
Other == [kind |-> "other", key |-> "", value |-> Empty]

\* The agent reads the first section of a name, which ends at the next header.
Headers(f, name) == {i \in DOMAIN f : f[i].kind = "section" /\ f[i].key = name}
HasSection(f, name) == Headers(f, name) # {}
InSection(f, name, i) ==
  \E h \in Headers(f, name) :
    /\ h <= i
    /\ \A j \in (h + 1)..i : f[j].kind # "section"
    /\ \A g \in Headers(f, name) : h <= g

\* An option is its first line there.
IsOption(f, name, key, i) ==
  /\ f[i].kind = "option" /\ f[i].key = key /\ InSection(f, name, i)
IsFirst(f, name, key, i) ==
  /\ IsOption(f, name, key, i)
  /\ \A j \in 1..(i - 1) : ~IsOption(f, name, key, j)
HasOption(f, name, key) == \E i \in DOMAIN f : IsOption(f, name, key, i)
Get(f, name, key) ==
  IF HasOption(f, name, key)
  THEN f[CHOOSE i \in DOMAIN f : IsFirst(f, name, key, i)].value
  ELSE Empty

\* A missing section is appended, after a blank line where there is none.
EnsureSection(f, name) ==
  IF HasSection(f, name) THEN f
  ELSE IF f = <<>> \/ (f # <<>> /\ f[Len(f)] = Other)
    THEN Append(f, Header(name))
    ELSE f \o <<Other, Header(name)>>

\* Where Set inserts: after the section's last line that says something.
IsLastUsed(f, name, i) ==
  /\ InSection(f, name, i) /\ f[i].kind # "other"
  /\ \A j \in (i + 1)..Len(f) : InSection(f, name, j) => f[j].kind = "other"

Inserted(f, i, line) == SubSeq(f, 1, i) \o <<line>> \o SubSeq(f, i + 1, Len(f))

Replaced(f, name, key, v) ==
  [i \in DOMAIN f |-> IF IsFirst(f, name, key, i) THEN Option(key, v) ELSE f[i]]

\* A variant with a defect, for the properties to catch.
SetAtEnd(f, name, key, v) ==
  IF HasOption(f, name, key) THEN Replaced(f, name, key, v)
  ELSE Append(f, Option(key, v))

\* An option that is there is replaced in its line, another is inserted.
Set(f, name, key, v) ==
  IF HasOption(f, name, key) THEN Replaced(f, name, key, v)
  ELSE Inserted(f, CHOOSE i \in DOMAIN f : IsLastUsed(f, name, i), Option(key, v))
=============================================================================
