-------------------------- MODULE CommandRegistry --------------------------
(***************************************************************************)
(* The registry of commands (internal/core/commands.go, commandtree.go,    *)
(* menu.go) and how it is filled: the plugin manager collects the commands *)
(* of the running plugins, in the order in which Go happens to walk its    *)
(* map, and SetRegistry builds the command tree and the aliases, swaps     *)
(* them in, then the callbacks, and has the menu sent to Telegram by a     *)
(* goroutine of its own.  Messages are routed between any two steps.       *)
(*                                                                         *)
(* A token is a string.  A word, as it is typed after the slash, is the    *)
(* sequence of the tokens that its underscores separate, so a token is a   *)
(* word of one; Clean says what becomes of a token in the name of a        *)
(* Telegram command, where "-" is an underscore too.  The truncation to 32 *)
(* letters and to 100 entries, descriptions and access are left out.       *)
(***************************************************************************)
EXTENDS Naturals, SequencesExt

CONSTANTS
  Commands,  \* Commands[p]: the commands of plugin p, in order: routes and aliases
  Clean,     \* Clean[token]: the word that the token becomes for Telegram
  HelpToken, \* "help"
  HelpAlias, \* and its alias "h"
  MaxMenus   \* bound: the menus that are on their way at a time

Bots == DOMAIN Commands
Tokens == DOMAIN Clean

HelpCommand == [route |-> <<HelpToken>>, aliases |-> {<<HelpAlias>>}]
NoCommand == [route |-> <<>>, aliases |-> {}]

\* The commands that may be installed.
Known == {HelpCommand} \cup UNION {ToSet(Commands[p]) : p \in Bots}

ASSUME RegistryAssumption ==
  /\ IsFiniteSet(Bots) /\ MaxMenus \in Nat
  /\ Clean \in [Tokens -> Seq(Tokens)]
  /\ \A p \in Bots : Commands[p] \in Seq(Known)
  /\ \A c \in Known : c.route \in Seq(Tokens) /\ c.route # <<>>

\* Nothing in the code sees to it, but the routes of its plugins are so: the
\* first token stays as it is for Telegram, and of each other something stays.
ASSUME RoutesAreClean ==
  \A c \in Known : /\ Clean[c.route[1]] = <<c.route[1]>>
                   /\ \A i \in DOMAIN c.route : Clean[c.route[i]] # <<>>

VARIABLES
  installed, \* the commands that the tree and the aliases were built from (history)
  tree,      \* root: tree[route] is the command of the node, NoCommand when it has none
  alias,     \* alias[word]: the route of the node it stands for
  callbacks, \* the plugins whose callbacks are registered
  setting,   \* where SetRegistry is
  incoming,  \* the plugins it registers
  menus      \* the menus on their way to Telegram, newest last

registryVars == <<installed, tree, alias, callbacks, setting, incoming, menus>>

---------------------------------------------------------------------------
(* Names                                                                   *)

\* sanitizeTelegramCommand: each token of the word cleaned, underscores between.
Sanitized(word) == FlattenSeq([i \in DOMAIN word |-> Clean[word[i]]])

\* telegramCommandNameFromRoute: the tokens of the route joined and cleaned.
TelegramName(route) == Sanitized(route)

\* Mutant: a command of one token is an alias too.
NeedsAlias_Always(route) == TRUE

\* An alias is made only for a name other than the token at the root: it would
\* hide the routes that begin with the token.
NeedsAlias(route) == Len(route) > 1 \/ TelegramName(route) # route

---------------------------------------------------------------------------
(* SetRegistry                                                             *)

\* Each command is at the end of its route, in the place of an earlier one if
\* need be; the nodes on the way have none unless they are given one.
TreeOf(cmds) ==
  LET nodes == UNION {{SubSeq(c.route, 1, n) : n \in DOMAIN c.route} : c \in ToSet(cmds)}
      At(r) == {i \in DOMAIN cmds : cmds[i].route = r}
  IN [r \in nodes |-> IF At(r) = {} THEN NoCommand ELSE cmds[Max(At(r))]]

\* The aliases given go to the last command that has them; the Telegram names,
\* and the clean forms of the aliases, to the first, unless they are given.
AliasesOf(cmds) ==
  LET given == UNION {{<<w, i>> : w \in cmds[i].aliases} : i \in DOMAIN cmds}
      auto == {<<Sanitized(g[1]), g[2]>> : g \in given} \cup
              {<<TelegramName(cmds[i].route), i>> :
                 i \in {i \in DOMAIN cmds : NeedsAlias(cmds[i].route)}}
      By(names, w) == {n[2] : n \in {n \in names : n[1] = w}}
  IN [w \in {n[1] : n \in given \cup auto} |->
        cmds[IF By(given, w) # {} THEN Max(By(given, w)) ELSE Min(By(auto, w))].route]

\* buildTelegramMenuCommands: the tokens at the root, cleaned, and the names of
\* the longer routes.
MenuOf(cmds) ==
  {Sanitized(r) : r \in {r \in DOMAIN TreeOf(cmds) : Len(r) = 1}} \cup
  {TelegramName(c.route) : c \in {c \in ToSet(cmds) : Len(c.route) > 1}}

\* refreshRegistryLocked: the commands of the running plugins, in any order, and
\* help.
Collected(order) ==
  Append(FlattenSeq([i \in DOMAIN order |-> Commands[order[i]]]), HelpCommand)

RegistryInit ==
  /\ installed = <<>> /\ tree = <<>> /\ alias = <<>>
  /\ callbacks = {} /\ setting = "idle" /\ incoming = {}
  /\ menus = <<>>

\* First section: the tree and the aliases.
SetRegistry ==
  /\ setting = "idle"
  /\ \E plugins \in SUBSET Bots :
       /\ incoming' = plugins
       /\ \E order \in SetToSeqs(plugins) :
            /\ installed' = Collected(order)
            /\ tree' = TreeOf(installed') /\ alias' = AliasesOf(installed')
  /\ setting' = "callbacks"
  /\ UNCHANGED <<callbacks, menus>>

\* Second section: the callbacks.
SetCallbacks ==
  /\ setting = "callbacks"
  /\ callbacks' = incoming /\ setting' = "menu"
  /\ UNCHANGED <<installed, tree, alias, incoming, menus>>

SendMenu ==
  /\ setting = "menu" /\ Len(menus) < MaxMenus
  /\ menus' = Append(menus, MenuOf(installed))
  /\ setting' = "idle" /\ incoming' = {}
  /\ UNCHANGED <<installed, tree, alias, callbacks>>

\* The goroutines run in any order; a menu comes to Telegram or is lost.
MenuArrives ==
  /\ \E i \in DOMAIN menus : menus' = RemoveAt(menus, i)
  /\ UNCHANGED <<installed, tree, alias, callbacks, setting, incoming>>

RegistryNext == SetRegistry \/ SetCallbacks \/ SendMenu \/ MenuArrives

RegistrySpec == RegistryInit /\ [][RegistryNext]_registryVars

---------------------------------------------------------------------------
(* routeMessage                                                            *)

\* The node that a message with this word and these arguments comes to: that of
\* the alias, or the one farthest down the tree; <<>> when there is none.
Node(word, args) ==
  IF word \in DOMAIN alias /\ tree[alias[word]] # NoCommand THEN alias[word]
  ELSE LET paths == {word \o SubSeq(args, 1, n) : n \in 0 .. Len(args)} \cap DOMAIN tree
       IN IF Len(word) # 1 \/ word \notin paths THEN <<>>
          ELSE CHOOSE p \in paths : \A q \in paths : Len(q) <= Len(p)

---------------------------------------------------------------------------
(* Properties                                                              *)

RegistryTypeOK ==
  /\ \A i \in DOMAIN installed :
       installed[i] = HelpCommand \/ \E p \in Bots : installed[i] \in ToSet(Commands[p])
  /\ \A r \in DOMAIN tree : tree[r] = NoCommand \/ tree[r].route = r
  /\ callbacks \subseteq Bots /\ incoming \subseteq Bots
  /\ setting \in {"idle", "callbacks", "menu"}
  /\ Len(menus) <= MaxMenus

\* Whatever plugins run, in whatever order they are walked, each command is
\* reached by its route typed out, as long as no alias was given by hand that is
\* a token at the root, and by each alias given to it alone; and each entry of
\* the menu of this registry leads to a node (commands.go:171-190, "would never
\* reach the 'systemd status' route"; menu.go:85).
CommandsReachable ==
  LET all == ToSet(installed)
      given == UNION {c.aliases \cup {Sanitized(w) : w \in c.aliases} : c \in all}
  IN /\ \A c \in all : SubSeq(c.route, 1, 1) \notin given => Node(SubSeq(c.route, 1, 1), Tail(c.route)) = c.route
     /\ \A c \in all : \A w \in c.aliases :
          (\A d \in all \ {c} : w \notin d.aliases) => Node(w, <<>>) = c.route
     /\ \A word \in MenuOf(installed) : Node(word, <<>>) # <<>>

=============================================================================
