-------------------------------- MODULE Names --------------------------------
(***************************************************************************)
(* What people are called: the nicknames saved from the phone, the address *)
(* book, the names people give themselves, the copies of a name the history*)
(* database keeps (a message's sender, a reply's quoted author, a mention  *)
(* in a text, a chat's title, a group's preview), and the passes of the    *)
(* repair run that bring those copies up to date (client.go, lidmap.go,    *)
(* history.go, profile.go, main.go).                                       *)
(*                                                                         *)
(* An address is a person and a form: the hidden id (LID) or the number.   *)
(* How the daemon comes to know the number of a LID is the module          *)
(* Identity's business; here it matters that three sources know numbers,   *)
(* and that the lookups of names do not ask the same ones.  A name is None,*)
(* a bare user id, a text, or a text with the mark "~" of somebody the user*)
(* has not saved.  That a name from the contact table is cached until the  *)
(* next reset is left out.                                                 *)
(***************************************************************************)
EXTENDS Naturals, FiniteSets, Sequences, SequencesExt, FiniteSetsExt

CONSTANTS
  People,
  Hidden,      \* those of them whom WhatsApp addresses by a LID too
  Contacts,    \* those of them the user saves, or whose name is synced
  Messages,    \* messages, in the order of their timestamps
  Namesakes,   \* do they all give themselves the same name?
  MaxChanges   \* bound: changes of what is known or saved about people

ASSUME PeopleAssumption == Hidden \cup Contacts \subseteq People
ASSUME MessagesAssumption == Messages \subseteq Nat \ {0} /\ IsFiniteSet(Messages)
ASSUME BoundsAssumption == MaxChanges \in Nat
ASSUME NamesakesAssumption == Namesakes \in BOOLEAN

Addrs == (Hidden \X {"lid"}) \cup (People \X {"pn"})
NoOne == <<>>
None == [kind |-> "none", of |-> NoOne]
Number(a) == [kind |-> "number", of |-> a]
Text(source, p) == [kind |-> "text", of |-> <<source, p>>]
OwnName(p) == [kind |-> "text", of |-> IF Namesakes THEN <<"own">> ELSE <<"own", p>>]
IsNumber(n) == n.kind = "number"
Texts == {Text(s, p) : s \in {"nick", "book", "phone"}, p \in People} \cup {OwnName(p) : p \in People}
Named == {None} \cup {Number(a) : a \in Addrs} \cup Texts
           \cup {[t EXCEPT !.kind = "marked"] : t \in Texts}
NoRef == [kind |-> "none", who |-> NoOne, name |-> None]
Refs == {NoRef} \cup [kind : {"quote", "mention"}, who : Addrs, name : Named]
NoRow == [from |-> NoOne]
Rows == [from : Addrs, name : Named, ref : Refs, group : BOOLEAN]

VARIABLES
  found,    \* the people whose LID pnForLID turns into a number
  alone,    \* those whose number whatsmeow has and pnForLID does not find: the
            \* pair is not in the table, or it is behind a cached miss
  taught,   \* those whose number is in lid_identity and not found by pnForLID
  book,     \* the people in the address book, which is kept by numbers
  known,    \* the addresses whose own name is in whatsmeow's contact table
  nick,     \* local_contacts: the addresses with a nickname
  learned,  \* lid_identity.name, by the address a message came from
  row,      \* the messages table
  title,    \* chats.name, None without a chat
  groupPreview,  \* the name in a group's preview, and whose message it quotes
  handling, \* the message that is being handled
  phase,    \* "serve", or the pass the repair comes to next
  quiet,    \* nothing was stored or learnt since this repair began
  settled,  \* nor since the last repair, which ran undisturbed
  changes

numbers == <<found, alone, taught>>
facts == <<numbers, book, known>>
names == <<row, title, groupPreview>>
namesVars == <<facts, nick, learned, names, handling, phase, quiet, settled, changes>>

NamesTypeOK ==
  /\ found \cup alone \cup taught \subseteq Hidden
  /\ book \subseteq People /\ known \subseteq Addrs
  /\ nick \subseteq Addrs
  /\ learned \in [Addrs -> Named]
  /\ \A m \in Messages : row[m] \in Rows \cup {NoRow}
  /\ title \in [Addrs -> Named]
  /\ groupPreview.msg \in Messages \cup {0} /\ groupPreview.name \in Named
  /\ handling = NoRow \/ handling.msg \in Messages
  /\ quiet \in BOOLEAN /\ settled \in BOOLEAN
  /\ changes \in 0..MaxChanges

NamesInit ==
  /\ found = {} /\ alone = {} /\ taught = {}
  /\ book = {} /\ known = {} /\ nick = {}
  /\ learned = [a \in Addrs |-> None]
  /\ row = [m \in Messages |-> NoRow]
  /\ title = [a \in Addrs |-> None]
  /\ groupPreview = [msg |-> 0, name |-> None]
  /\ handling = NoRow
  /\ phase = "serve" /\ quiet = FALSE /\ settled = FALSE
  /\ changes = 0

-----------------------------------------------------------------------------
(* Resolving a name.                                                       *)

\* The address a person is filed under: canonicalJID asks all three sources.
Mapped == found \cup alone \cup taught
Canon(a) == IF a[1] \in Mapped THEN <<a[1], "pn">> ELSE a

\* The contact tables are read under the address and the one that pnForLID
\* makes of it.
Finds(a) == a[2] = "pn" \/ a[1] \in found
OwnKnown(a) == \E b \in known : b[1] = a[1] /\ (b = a \/ a[1] \in found)

\* The names RefreshNames goes by: the nickname, and then the address book.
Saved(a) ==
  CASE Canon(a) \in nick -> Text("nick", a[1])
    [] Canon(a) \notin nick /\ Finds(a) /\ a[1] \in book -> Text("book", a[1])
    [] OTHER -> None

\* Only when no own name is at hand is the address book read under the
\* canonical address, too.
InBook(a, pushed) ==
  pushed = None /\ ~OwnKnown(a) /\ Canon(a)[2] = "pn" /\ a[1] \in book

\* Who is saved, when no name comes along.
IsSaved(a) == Saved(a) # None \/ InBook(a, None)

\* A name the person chose: the one that came along, the contact table's, or
\* what traffic has taught about the address.
Chosen(a, pushed) ==
  CASE pushed # None -> pushed
    [] pushed = None /\ (OwnKnown(a) \/ Canon(a) \in known) -> OwnName(a[1])
    [] OTHER -> learned[a]

\* tildeUnsaved.
Marked(n) == IF n.kind = "text" THEN [n EXCEPT !.kind = "marked"] ELSE n

DisplayName(a, pushed) ==
  CASE Saved(a) # None -> Saved(a)
    [] Saved(a) = None /\ InBook(a, pushed) -> Text("book", a[1])
    [] OTHER -> Marked(Chosen(a, pushed))

OrElse(n, m) == IF n = None THEN m ELSE n

SenderName(a, pushed) == OrElse(DisplayName(a, pushed), Number(Canon(a)))
ChatName(a) == OrElse(DisplayName(a, None), Number(a))
QuotedName(a) == OrElse(DisplayName(a, None), Number(Canon(a)))

\* A mention of a LID that nobody can name becomes "+number"; otherwise the
\* digits stay in the text.
Mention(a) ==
  OrElse(DisplayName(a, None), IF Canon(a) = a THEN Number(a) ELSE Text("phone", a[1]))

Refers(kind, a) ==
  [kind |-> kind, who |-> a, name |-> IF kind = "quote" THEN QuotedName(a) ELSE Mention(a)]

\* What the history sent to the phone calls the sender of m: resolved anew,
\* once per sender and page, with the first stored name of the page to fall
\* back on (resolveSenderNames, unknownSenderLabel).
SamePage(m) ==
  {k \in Messages : row[k] # NoRow /\ row[k].from = row[m].from /\ row[k].group = row[m].group}

Shown(m) ==
  LET stored == row[Min(SamePage(m))].name IN
  OrElse(DisplayName(row[m].from, IF IsNumber(stored) THEN None ELSE stored), row[m].name)

-----------------------------------------------------------------------------
(* What becomes known.                                                     *)

Disturbed == quiet' = FALSE /\ settled' = FALSE

Changed ==
  /\ changes < MaxChanges /\ changes' = changes + 1
  /\ Disturbed
  /\ UNCHANGED <<names, handling, phase>>

\* A number for a LID, which the lookups find at once, or later, or not at all;
\* an entry of the address book made, or deleted; the name a person chose, once
\* the contact is synced under one of the person's addresses.
LearnsNumber(p) ==
  /\ p \in Hidden \ found
  /\ \/ found' = found \cup {p} /\ alone' = alone \ {p} /\ taught' = taught \ {p}
     \/ p \notin alone /\ alone' = alone \cup {p} /\ UNCHANGED <<found, taught>>
  /\ UNCHANGED <<book, known>>
ChangesBook(p) ==
  /\ book' = IF p \in book THEN book \ {p} ELSE book \cup {p}
  /\ UNCHANGED <<numbers, known>>
LearnsOwnName(p) ==
  /\ \E a \in Addrs \ known : a[1] = p /\ known' = known \cup {a}
  /\ UNCHANGED <<numbers, book>>

FactsChange(p) ==
  /\ p \in Contacts
  /\ LearnsNumber(p) \/ ChangesBook(p) \/ LearnsOwnName(p)
  /\ Changed
  /\ UNCHANGED <<nick, learned>>

-----------------------------------------------------------------------------
(* A message: its names are resolved, and then it is stored.               *)

\* handleMsg resolves the names; learnLID keeps a sender's name that is not a
\* bare number, and the number that is known of a LID.
Arrives(m, a, pushed, group, ref) ==
  /\ handling = NoRow /\ row[m] = NoRow
  /\ handling' = [msg |-> m, chat |-> IF group THEN None ELSE ChatName(Canon(a)),
                  row |-> [from |-> Canon(a), name |-> SenderName(a, pushed),
                           ref |-> ref, group |-> group]]
  /\ LET n == SenderName(a, pushed) IN
     learned' = IF IsNumber(n) THEN learned ELSE [learned EXCEPT ![a] = n]
  /\ taught' = IF Finds(a) \/ Canon(a) = a THEN taught ELSE taught \cup {a[1]}
  /\ Disturbed
  /\ UNCHANGED <<found, alone, book, known, nick, names, phase, changes>>

\* putMessage: the row, and with it the title of the chat with one person, or
\* the preview of the group if the message is not older than the one it has.
Stores ==
  /\ handling # NoRow
  /\ row' = [row EXCEPT ![handling.msg] = handling.row]
  /\ title' = IF handling.row.group THEN title ELSE [title EXCEPT ![handling.row.from] = handling.chat]
  /\ groupPreview' = IF handling.row.group /\ handling.msg >= groupPreview.msg
                     THEN [msg |-> handling.msg, name |-> handling.row.name] ELSE groupPreview
  /\ handling' = NoRow
  /\ Disturbed
  /\ UNCHANGED <<facts, nick, learned, phase, changes>>

-----------------------------------------------------------------------------
(* SaveContact: a nickname is saved, or taken back.                        *)

From(m, a) == row[m] # NoRow /\ row[m].from = a

\* renameChatAndMessages at every address of the set: the title, the names in
\* the rows, and the quoted names in the rows, which it looks up by the sender.
Renamed(as, n) ==
  /\ title' = [a \in Addrs |-> IF a \in as /\ title[a] # None THEN n ELSE title[a]]
  /\ row' = [m \in Messages |->
               IF \E a \in as : From(m, a)
               THEN [row[m] EXCEPT !.name = n,
                                   !.ref.name = IF row[m].ref.kind = "quote" THEN n ELSE @]
               ELSE row[m]]

SaveContact(a) ==
  /\ phase = "serve" /\ a[1] \in Contacts
  /\ title[a] # None \/ \E m \in Messages : From(m, a)
  /\ nick' = nick \cup {Canon(a)}
  /\ Renamed({a, Canon(a)}, Text("nick", a[1]))
  /\ changes < MaxChanges /\ changes' = changes + 1
  /\ Disturbed
  /\ UNCHANGED <<facts, learned, groupPreview, handling, phase>>

ClearContact(a) ==
  /\ phase = "serve" /\ Canon(a) \in nick
  /\ title[a] # None \/ \E m \in Messages : From(m, a)
  /\ nick' = nick \ {Canon(a)}
  /\ Changed
  /\ UNCHANGED <<facts, learned>>

-----------------------------------------------------------------------------
(* The passes of the repair run, in their order.                           *)

\* With the process, what it was handling is lost, and so are the cached misses
\* and the numbers that whatsmeow had and not written.
Restarts ==
  /\ handling' = NoRow
  /\ \E written \in SUBSET alone : found' = found \cup written /\ taught' = taught \ written
  /\ alone' = {}
  /\ UNCHANGED <<book, known, nick, learned, changes>>

\* The daemon is started for a repair.
StartsRepair ==
  /\ phase = "serve"
  /\ phase' = "migrate" /\ quiet' = TRUE
  /\ Restarts
  /\ settled' = (settled /\ alone = {})
  /\ UNCHANGED names

\* A pass is done.
Pass(p, next) ==
  /\ phase = p /\ phase' = next
  /\ UNCHANGED <<facts, nick, learned, handling, changes, quiet>>

\* RunLIDMigration: a title under a LID whose number is known moves there.
MigrateLIDs ==
  /\ Pass("migrate", "chats")
  /\ LET moved == {p \in Mapped : title[<<p, "lid">>] # None} IN
     title' = [a \in Addrs |->
                 CASE a[1] \in moved /\ a[2] = "lid" -> None
                   [] a[1] \in moved /\ a[2] = "pn" -> title[<<a[1], "lid">>]
                   [] OTHER -> title[a]]
  /\ UNCHANGED <<row, groupPreview, settled>>

\* A stored bare number, resolved.
Backfilled(n, a) == IF IsNumber(n) THEN OrElse(DisplayName(a, None), n) ELSE n

BackfillChatNames ==
  /\ Pass("chats", "senders")
  /\ title' = [a \in Addrs |-> Backfilled(title[a], a)]
  /\ UNCHANGED <<row, groupPreview, settled>>

BackfillSenderNames ==
  /\ Pass("senders", "quotes")
  /\ row' = [m \in Messages |-> IF row[m] = NoRow THEN NoRow
                            ELSE [row[m] EXCEPT !.name = Backfilled(@, row[m].from)]]
  /\ UNCHANGED <<title, groupPreview, settled>>


\* The digits that stand for somebody, resolved under the address they are of.
RefsBackfilled(kind) ==
  row' = [m \in Messages |->
            IF row[m] # NoRow /\ row[m].ref.kind = kind /\ IsNumber(row[m].ref.name)
            THEN [row[m] EXCEPT !.ref.name = Backfilled(@, @.of)] ELSE row[m]]

BackfillQuotedNames ==
  /\ Pass("quotes", "refresh")
  /\ RefsBackfilled("quote")
  /\ UNCHANGED <<title, groupPreview, settled>>

\* Senders, and the names they are stored under; and the titles.
StoredNames == {<<row[m].from, row[m].name>> : m \in {k \in Messages : row[k] # NoRow}}
Titles == {<<a, title[a]>> : a \in {b \in Addrs : title[b] # None}}

\* What a pass replaces (fix maps an address and a stored name to the right
\* name), and for each name that a sender gives up one of its replacements: a
\* quote holds a name and no address, so a name that two senders had is
\* replaced by the new name of either.
Replacements(fix) ==
  LET lost == StoredNames \cap DOMAIN fix
      old == {s[2] : s \in lost}
  IN {f \in [old -> {fix[s] : s \in lost}] :
        \A n \in old : \E s \in lost : s[2] = n /\ f[n] = fix[s]}

\* A quoted name after the replacements f were made one after the other.
Requoted(n, f, order) == FoldLeft(LAMBDA x, o : IF x = o THEN f[o] ELSE x, n, order)

Corrected(fix, a, n) == IF <<a, n>> \in DOMAIN fix THEN fix[<<a, n>>] ELSE n

\* Both passes that correct names that look sound: senders, quotes, titles.
Corrects(fix) ==
  /\ \E f \in Replacements(fix) : \E order \in SetToSeqs(DOMAIN f) :
       row' = [m \in Messages |->
                 IF row[m] = NoRow THEN NoRow
                 ELSE [row[m] EXCEPT
                         !.name = Corrected(fix, row[m].from, @),
                         !.ref.name = IF row[m].ref.kind = "quote"
                                      THEN Requoted(@, f, order) ELSE @]]
  /\ title' = [a \in Addrs |-> Corrected(fix, a, title[a])]
  /\ UNCHANGED <<groupPreview, settled>>

BugOutdated(a, n) == Saved(a) # None /\ IsNumber(n)

\* RefreshNames: what the user has saved replaces what is stored.
Outdated(a, n) == Saved(a) # None /\ Saved(a) # n

SavedNames ==
  [s \in {t \in StoredNames \cup Titles : Outdated(t[1], t[2])} |-> Saved(s[1])]

RefreshNames ==
  /\ Pass("refresh", "mark")
  /\ Corrects(SavedNames)

\* markUnsavedNames: a text gets its mark if the user has not saved its owner.
Unmarked(a, n) == n.kind = "text" /\ ~IsSaved(a)

MarkedNames ==
  [s \in {t \in StoredNames \cup Titles : Unmarked(t[1], t[2])} |-> Marked(s[2])]

MarkUnsavedNames ==
  /\ Pass("mark", "mentions")
  /\ Corrects(MarkedNames)

ResolveStoredMentions ==
  /\ Pass("mentions", "previews")
  /\ RefsBackfilled("mention")
  /\ UNCHANGED <<title, groupPreview, settled>>

GroupRows == {m \in Messages : row[m] # NoRow /\ row[m].group}

\* Previews are built again from the newest rows; the daemon exits, and is
\* started to serve.
RebuildPreviews ==
  /\ phase = "previews" /\ phase' = "serve" /\ quiet' = FALSE
  /\ Restarts
  /\ groupPreview' = IF GroupRows = {} THEN groupPreview
                     ELSE [msg |-> Max(GroupRows), name |-> row[Max(GroupRows)].name]
  /\ settled' = (quiet /\ alone = {})
  /\ UNCHANGED <<row, title>>

RepairPass ==
  \/ MigrateLIDs \/ BackfillChatNames \/ BackfillSenderNames \/ BackfillQuotedNames
  \/ RefreshNames \/ MarkUnsavedNames \/ ResolveStoredMentions \/ RebuildPreviews

-----------------------------------------------------------------------------
\* A message comes from an address, with its sender's own name or without,
\* into the chat of two or the group, where it may refer to a contact.
MessageArrives(m, a) ==
  \E pushed \in {None, OwnName(a[1])} :
    \/ \E group \in BOOLEAN : Arrives(m, a, pushed, group, NoRef)
    \/ \E kind \in {"quote", "mention"} : \E b \in {c \in Addrs : c[1] \in Contacts \ {a[1]}} :
         pushed # None /\ Arrives(m, a, pushed, TRUE, Refers(kind, b))

NamesNext ==
  \/ \E m \in Messages, a \in Addrs : MessageArrives(m, a)
  \/ Stores
  \/ \E p \in People : FactsChange(p)
  \/ \E a \in Addrs : SaveContact(a) \/ ClearContact(a)
  \/ StartsRepair
  \/ RepairPass

NamesSpec == NamesInit /\ [][NamesNext]_namesVars

-----------------------------------------------------------------------------
(* Properties.                                                             *)

Senders(p) == {m \in Messages : row[m] # NoRow /\ row[m].from[1] = p}

\* A person with a known number whom the user has saved is shown under the
\* saved name in every message there is, whatever address it came from and
\* whatever name was stored with it: saving a contact fixes every message they
\* ever sent (resolveSenderNames).  The daemon files people under numbers that
\* the lookup in the address book does not find, and then the name that was
\* stored with a message beats the address book.
SavedIsShown ==
  \A p \in Mapped : \A m \in Senders(p) :
    Saved(<<p, "pn">>) # None => Shown(m) = Saved(<<p, "pn">>)

\* A repair that nothing disturbs leaves no sender, title or preview with a name
\* that is out of date: whom RefreshNames finds saved has the saved name, who is
\* not saved no name without the mark, and no bare number stands for somebody
\* who has a name; the preview says what the message says.  Nothing is said of
\* somebody who is in the address book under a number that the lookup does not
\* find: RefreshNames does not find the entry either.
UpToDate(n, a) ==
  /\ Saved(a) # None => n = Saved(a)
  /\ ~IsSaved(a) => n.kind # "text"
  /\ IsNumber(n) => DisplayName(a, None) = None

RepairLeavesNoStaleName ==
  settled =>
    /\ \A m \in Messages : row[m] # NoRow => UpToDate(row[m].name, row[m].from)
    /\ \A a \in Addrs : title[a] # None => UpToDate(title[a], a)
    /\ GroupRows # {} => groupPreview = [msg |-> Max(GroupRows), name |-> row[Max(GroupRows)].name]


\* A quote names the author of what it quotes: by number, or by a name that
\* is, or was, that person's.
QuoteNamesItsAuthor ==
  \A m \in Messages :
    (row[m] # NoRow /\ row[m].ref.kind = "quote") =>
      LET n == row[m].ref.name  p == row[m].ref.who[1] IN
      IF IsNumber(n) THEN n.of[1] = p
      ELSE n.of \in {Text("nick", p).of, Text("book", p).of, OwnName(p).of}

\* A nickname beats everything else (displayNameSourced).  It does not once it
\* was saved under a LID whose number becomes known.
NicknameStands == \A a \in nick : Saved(a) = Text("nick", a[1])

\* A saved nickname is the title of its chat at once (renameChatAndMessages).
\* It is not if a message was being handled when it was saved.
TitleIsTheNickname == \A a \in nick : title[a] \in {None, Text("nick", a[1])}

\* A LID is shown in place of a name only while its number is not known
\* (unknownSenderLabel).  It is shown for good if it was stored as the name.
NoOpaqueId ==
  \A m \in Messages :
    row[m] # NoRow =>
      LET n == Shown(m) IN IsNumber(n) => n.of[2] = "pn" \/ n.of[1] \notin Mapped
=============================================================================
