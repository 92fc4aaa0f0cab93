------------------------------ MODULE TextRoots ------------------------------
(***************************************************************************)
(* The roots that are text: name|key lines (root/text/text.go), the table  *)
(* of Overwatch (root/overwatch/overwatch.go, csv/csv.go) and list files   *)
(* (listfile/listfile.go).  A line is its fields, the text between the     *)
(* bars; a key of 32 hex digits is <<"md5", k>>, any other text is itself. *)
(***************************************************************************)
EXTENDS Blob

CONSTANTS Folded,        \* HashFileName: one value per class of spellings
          Comments,      \* texts that begin with '#'
          Semicolons     \* texts that begin with ';'

IsKey(cell)  == cell[1] = "md5"
Text(s)      == <<"text", s>>
Same(a, b)   == Folded[a[2]] = Folded[b[2]]
Row(name, ckey) == [name |-> name, ckey |-> ckey]

(* text.Parse: what is not a name, a bar and a key is passed over; the first *)
(* bar ends the name, so a third field spoils the key.                      *)
ParseText(lines) ==
  LET good == SelectSeq(lines, LAMBDA line : Len(line) = 2 /\ line[1] \notin Comments /\ IsKey(line[2]))
  IN Ok([i \in DOMAIN good |-> Row(good[i][1], good[i][2])])

(* text.Probe asks for a bar in text, not for a key after it.                *)
ProbeText(lines) ==
  IF \A i \in DOMAIN lines : Len(lines[i]) < 2 THEN Error ELSE ParseText(lines)

(* overwatch.Parse: the first line names the columns; the last FILENAME and  *)
(* the first of the key columns count.  A table without rows is refused.    *)
KeyColumns == {Text("MD5"), Text("CKEY"), Text("CONTENTHASH"), Text("CONTENT_KEY")}
Columns(header, names) == {i \in DOMAIN header : header[i] \in names}
ParseOverwatch(lines) ==
  LET header == lines[1]
      nameCols == Columns(header, {Text("FILENAME")})
      keyCols == Columns(header, KeyColumns)
      nameCol == CHOOSE i \in nameCols : \A j \in nameCols : j <= i
      keyCol == CHOOSE i \in keyCols : \A j \in keyCols : i <= j
      good == SelectSeq(Tail(lines), LAMBDA row :
                /\ nameCol <= Len(row) /\ keyCol <= Len(row)
                /\ row[nameCol] # Text("") /\ IsKey(row[keyCol]))
  IN IF lines = <<>> \/ nameCols = {} \/ keyCols = {} THEN Error
     ELSE IF good = <<>> THEN Error
     ELSE Ok([i \in DOMAIN good |-> Row(good[i][nameCol], good[i][keyCol])])

(* overwatch.Probe asks for FILENAME and MD5, where Parse knows other key    *)
(* columns as well.                                                         *)
ProbeOverwatch(lines) ==
  IF lines # <<>> /\ {Text("FILENAME"), Text("MD5")} \subseteq ToSet(lines[1])
  THEN ParseOverwatch(lines) ELSE Error

(* listfile.Load: one name a line; the list holds the last spelling of each. *)
LoadList(lines) ==
  LET good == SelectSeq(lines, LAMBDA line : line # <<Text("")>> /\ line[1] \notin Comments \cup Semicolons)
  IN Ok([i \in DOMAIN good |-> Row(good[i][1], good[i][1])])

(* byHash: the last row of a class of spellings. *)
LookupText(rows, name) ==
  LET is == {i \in DOMAIN rows : Same(rows[i].name, name)}
  IN IF is = {} THEN {} ELSE {rows[CHOOSE i \in is : \A j \in is : j <= i]}

(* All of a text root and of a list file go over byHash, all of an Overwatch *)
(* root over its rows.                                                      *)
ListedText(rows) == {row \in ToSet(rows) : LookupText(rows, row.name) = {row}}
==============================================================================
