---------------------------- MODULE MCComponents ----------------------------
(***************************************************************************)
(* The components that share no state, explored by one run of TLC: a       *)
(* behaviour belongs to the component in `focus`, and the others stay as   *)
(* they were.                                                              *)
(***************************************************************************)
EXTENDS WifiLifecycle, Shell, SleepCycle, Display, ReaderSession, Settings, Pagination,
        BrowserSync, TLC

VARIABLE focus

MCPoints == {<<300, 20>>, <<300, 280>>}
MCDeliveries == {"first", "second", "third"}
\* A manifest names paths and sizes, so different archives may share one.
MCArchiveOf ==
     "first" :> [bytes |-> "one", manifest |-> "small"]
  @@ "second" :> [bytes |-> "two", manifest |-> "small"]
  @@ "third" :> [bytes |-> "three", manifest |-> "large"]

\* Blocks of prs-markdown in units of a line of text: lines of one height, or
\* the rows of a table, of which a grouped one has a header for each group;
\* the header of the last does not fit a page.
Text(kind, size, height) ==
  [kind |-> kind, lines |-> [n \in 1 .. size |-> [top |-> (n - 1) * height, bottom |-> n * height]],
   rows |-> {TableRow(1, size, 1, FALSE)}]
Table(size, rows) == [Text("table", size, 1) EXCEPT !.rows = rows]
MCBlocks ==
  {Text("heading", 1, 1), Text("heading", 2, 1), Text("paragraph", 1, 1), Text("paragraph", 3, 1),
   Text("paragraph", 6, 1), Text("list", 2, 1), Text("rule", 1, 1), Text("image", 1, 3),
   Text("image", 2, 1),
   Table(4, {TableRow(1, 1, 1, TRUE), TableRow(2, 2, 1, FALSE), TableRow(3, 4, 1, FALSE)}),
   Table(10, {TableRow(1, 1, 1, TRUE), TableRow(2, 5, 1, FALSE),
              TableRow(6, 6, 2, TRUE), TableRow(7, 10, 2, FALSE)}),
   Table(5, {TableRow(1, 4, 1, TRUE), TableRow(5, 5, 1, FALSE)})}
MCSpacings == {[before |-> 0, heading |-> 0, other |-> 0], [before |-> 1, heading |-> 0, other |-> 1]}

device == <<wifiVars, shellVars, sleepVars, displayVars>>
others == <<readerVars, settingsVars, paginationVars, browserVars>>
allVars == <<focus, device, others>>

MCInit ==
  /\ focus \in {"wifi", "shell", "sleep", "display", "reader", "settings", "pages", "browser"}
  /\ WifiInit /\ ShellInit /\ SleepInit /\ DisplayInit
  /\ ReaderInit /\ SettingsInit /\ BrowserInit
  /\ PaginationInit
  /\ focus # "pages" => pageHeight = 5 /\ spacing.other = 0
  /\ focus # "shell" => shape = "size"
  /\ focus # "display" => {mapping, panel} = {[c \in Cells |-> "black"]}

MCNext ==
  \/ /\ focus = "wifi" /\ WifiNext
     /\ UNCHANGED <<focus, shellVars, sleepVars, displayVars, others>>
  \/ /\ focus = "shell" /\ ShellNext
     \* The older driver is explored without the Menu key.
     /\ shape = "button" => menu' = "none"
     /\ UNCHANGED <<focus, wifiVars, sleepVars, displayVars, others>>
  \/ /\ focus = "sleep" /\ SleepNext
     /\ UNCHANGED <<focus, wifiVars, shellVars, displayVars, others>>
  \/ /\ focus = "display" /\ DisplayNext
     /\ UNCHANGED <<focus, wifiVars, shellVars, sleepVars, others>>
  \/ /\ focus = "reader" /\ ReaderNext
     /\ UNCHANGED <<focus, device, settingsVars, paginationVars, browserVars>>
  \/ /\ focus = "settings" /\ SettingsNext
     /\ UNCHANGED <<focus, device, readerVars, paginationVars, browserVars>>
  \/ /\ focus = "pages" /\ PaginationNext
     /\ UNCHANGED <<focus, device, readerVars, settingsVars, browserVars>>
  \/ /\ focus = "browser" /\ BrowserNext
     /\ UNCHANGED <<focus, device, readerVars, settingsVars, paginationVars>>

MCSpec == MCInit /\ [][MCNext]_allVars /\ WifiFairness

MCTypeOK ==
  /\ focus = "wifi" => WifiTypeOK
  /\ focus = "shell" => ShellTypeOK
  /\ focus = "sleep" => SleepTypeOK
  /\ focus = "display" => DisplayTypeOK
  /\ focus = "reader" => ReaderTypeOK
  /\ focus = "settings" => SettingsTypeOK
  /\ focus = "pages" => PaginationTypeOK
  /\ focus = "browser" => BrowserTypeOK
=============================================================================
