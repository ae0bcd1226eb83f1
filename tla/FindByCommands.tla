---------------------------- MODULE FindByCommands ----------------------------
(***************************************************************************)
(* findByCommands and findOneByCommands of the two repository adapters: a  *)
(* list of commands on properties becomes one object with a condition per  *)
(* property, so that a later command on a property replaces an earlier     *)
(* one.  MongoDB validates the list first, PostgreSQL does not.  The list  *)
(* is composed a command at a time and answered after each.                *)
(***************************************************************************)
EXTENDS Naturals, Sequences, FiniteSetsExt

CONSTANTS
    Properties, \* the properties of an entity
    Strings,    \* what a property may hold and a command may compare it with
    Prefix,     \* pairs <<p, t>>: t starts with p, whatever the case
    Part,       \* pairs <<p, t>>: p is found in t, whatever the case
    Folded,     \* pairs <<p, t>>: t is p but for the case
    MaxCommands \* bound on the length of a list

CommandsAssumption ==
    /\ Prefix \subseteq Part /\ Part \subseteq Strings \X Strings
    /\ Folded \subseteq Prefix /\ \A t \in Strings : <<t, t>> \in Folded

VARIABLES
    filterList, \* the commands so far
    refused,    \* MongoRepository answers 400
    mongo,      \* what it answers otherwise
    postgres    \* what TypeORMRepository answers

vars == <<filterList, refused, mongo, postgres>>

LikeCommands == {"contains", "not_contains"}
EqualCommands == {"equal", "not_equal"}
Negative == {"not_equal", "not_contains"}
Command == [property : Properties, command : LikeCommands \cup EqualCommands,
            value : SUBSET Strings \ {{}}]

Entity == [Properties -> Strings]
\* The rows of the table: each entity, live and soft-deleted
Rows == [entity : Entity, live : BOOLEAN]

TypeOK ==
    /\ filterList \in Seq(Command)
    /\ mongo \cup postgres \subseteq [entity : Entity, live : {TRUE}]

Commands == {filterList[n] : n \in 1 .. Len(filterList)}

-----------------------------------------------------------------------------
\* The places of the commands on a property, and how many of them are of a kind
CommandsOn(list, p) == {n \in 1 .. Len(list) : list[n].property = p}
Count(list, places, S) == Cardinality({n \in places : list[n].command \in S})

\* Mutant: the commands of different properties are counted together
RefusedTogether(list) ==
    Count(list, 1 .. Len(list), LikeCommands) = 2 \/ Count(list, 1 .. Len(list), EqualCommands) = 2

\* validateFindByCommandsFilter: two commands of a kind on a property, not three
Refused(list) ==
    \E p \in Properties :
        \/ Count(list, CommandsOn(list, p), LikeCommands) = 2
        \/ Count(list, CommandsOn(list, p), EqualCommands) = 2

\* The condition a search object is left with for p
LastOn(list, p) == list[Max(CommandsOn(list, p))]

\* $in and $nin, of the values or of the regular expressions ^value, i
MongoMatches(c, t) ==
    LET rel == IF c.command \in LikeCommands THEN Prefix ELSE {<<p, p>> : p \in Strings}
    IN  (\E v \in c.value : <<v, t>> \in rel) = (c.command \notin Negative)

\* ILIKE ANY and NOT ILIKE ALL, of value or of %value%
PostgresMatches(c, t) ==
    LET rel == IF c.command \in LikeCommands THEN Part ELSE Folded
    IN  (\E v \in c.value : <<v, t>> \in rel) = (c.command \notin Negative)

Search(list, Matches(_, _)) ==
    {r \in Rows : r.live /\ \A p \in {list[n].property : n \in 1 .. Len(list)} :
                                Matches(LastOn(list, p), r.entity[p])}

FindByCommands(list) == IF Refused(list) THEN {} ELSE Search(list, MongoMatches)

\* Live rows too: TypeORM hides the others
PostgresFindByCommands(list) == Search(list, PostgresMatches)

Init ==
    /\ filterList = <<>>
    /\ refused = FALSE
    /\ mongo = FindByCommands(<<>>)
    /\ postgres = PostgresFindByCommands(<<>>)

Add(c) ==
    /\ Len(filterList) < MaxCommands
    /\ filterList' = Append(filterList, c)
    /\ refused' = Refused(filterList')
    /\ mongo' = FindByCommands(filterList')
    /\ postgres' = PostgresFindByCommands(filterList')

Next == \E c \in Command : Add(c)
Spec == Init /\ [][Next]_vars

-----------------------------------------------------------------------------
\* What a command asks of a text, exactly
Meets(c, t) == LET rel == IF c.command \in LikeCommands THEN Prefix ELSE {<<p, p>> : p \in Strings}
               IN  (c.command \in Negative) = ~ \E v \in c.value : <<v, t>> \in rel

(***************************************************************************)
(* With one command per property a list is a conjunction: MongoDB accepts  *)
(* it and answers the live entities that meet every command of it.         *)
(***************************************************************************)
ListIsConjunction ==
    Len(filterList) = Cardinality({c.property : c \in Commands}) =>
        ~ refused /\ mongo = {r \in Rows : r.live /\ \A c \in Commands : Meets(c, r.entity[c.property])}

(***************************************************************************)
(* The same list asks less of PostgreSQL, which ignores case and looks     *)
(* anywhere in a text: what MongoDB finds by lists that include,           *)
(* PostgreSQL finds as well, and the other way around by lists that        *)
(* exclude; of a list MongoDB accepts, also if commands replace others.    *)
(***************************************************************************)
PostgresIsLooser ==
    ~ refused =>
        /\ (\A c \in Commands : c.command \notin Negative) => mongo \subseteq postgres
        /\ (\A c \in Commands : c.command \in Negative) => postgres \subseteq mongo
=============================================================================
