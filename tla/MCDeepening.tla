----------------------------- MODULE MCDeepening -----------------------------
EXTENDS Deepening

MCScores == {-19990, 20, 208}

Words(command, words) == <<Text(command)>> \o words
OptionLine(name, value) == Words("setoption", <<Text("name"), Text(name), Text("value"), value>>)

MCLines ==
  {Words("go", <<Text("wtime"), Number(3000), Text("btime"), Number(1000),
                 Text("winc"), Number(100)>>),
   Words("go", <<Text("ponder"), Text("btime"), Number(400), Text("movestogo"), Number(2)>>),
   Words("go", <<Text("btime"), Number(600), Text("movestogo"), Number(2)>>),
   Words("go", <<Text("movetime"), Number(200)>>),
   Words("go", <<Text("infinite")>>),
   Words("go", <<Text("wtime"), Number(1500), Text("infinite"), Text("btime"), Number(500)>>),
   Words("go", <<Text("wtime"), Number(800), Text("btime"), Number(900), Text("ponder")>>),
   Words("go", <<Text("depth"), Number(3)>>),
   Words("go", <<Text("depth"), Number(7)>>),
   Words("go", <<Text("depth"), Number(16)>>),
   OptionLine("Threads", Number(2)), OptionLine("Threads", Number(1000)),
   OptionLine("Hash", Number(8)), OptionLine("Hash", Number(40)),
   OptionLine("MoveOverhead", Number(300)), OptionLine("Ponder", Text("true")),
   Words("position", <<Text("black")>>),
   Words("bench", <<>>)}
==============================================================================
